---- MODULE Spec2Model ----
(***************************************************************************)
(* State-machine model of the incident agent: the orchestration loop       *)
(* (app/agent.py), the tool dispatcher and its tools (app/agent_tools.py), *)
(* the severity / assignee policies (app/incident_logic.py) and the        *)
(* knowledge-base index (app/kb.py).                                       *)
(*                                                                         *)
(* Python values are modelled as follows.  A dict is a TLA+ record; a key  *)
(* that is absent is absent from the record's DOMAIN.  Where the code      *)
(* inspects the run-time type of a value (isinstance), the value carries a *)
(* tag: [kind |-> "dict", val |-> r], [kind |-> "str", ...], ...           *)
(* A piece of text is a sequence of fragments: a whitespace fragment       *)
(* (" " or "\n"), a fragment that is a complete JSON document, or a        *)
(* fragment that is no JSON at all.                                        *)
(***************************************************************************)
EXTENDS Integers, Sequences, FiniteSets, TLC

(***************************************************************************)
(* Bounds of the model.                                                    *)
(***************************************************************************)
\* Responses of one run that may be drawn from the whole tool-call menu; the
\* remaining tool-call responses are the routine one.
MaxVaried == 2

(***************************************************************************)
(* Python helpers.                                                         *)
(***************************************************************************)
NONE == "None"

\* d.get(k) for a key whose value is a string (None when absent).
Get(d, k) == IF k \in DOMAIN d THEN d[k] ELSE NONE

\* d.get(k) for a key whose value is tagged.
NoneVal == [kind |-> "none"]
GetVal(d, k) == IF k \in DOMAIN d THEN d[k] ELSE NoneVal

JDict(r) == [kind |-> "dict", val |-> r]
JList(s) == [kind |-> "list", items |-> s]
EmptyDict == <<>>
JStr(s) == [kind |-> "str", str |-> s]
JNum(n) == [kind |-> "num", num |-> n]

\* bool(v) of a JSON value.
Truthy(v) ==
    CASE v.kind = "none" -> FALSE
      [] v.kind = "str" -> v.str # ""
      [] v.kind = "num" -> v.num # 0
      [] v.kind = "list" -> v.items # <<>>
      [] v.kind = "dict" -> DOMAIN v.val # {}

\* x or y
OrVal(x, y) == IF Truthy(x) THEN x ELSE y

\* hash(v) raises TypeError for a list or a dict.
Hashable(v) == v.kind \notin {"list", "dict"}

\* v in S, for a hashable v and a set S of str.
InStrs(v, S) == v.kind = "str" /\ v.str \in S

\* json.dumps(v): the JSON text that encodes v.
JsonDumps(v) == [json |-> v]

(***************************************************************************)
(* Text: str.strip, "\n".join and json.loads on fragment sequences.        *)
(***************************************************************************)
Whitespace == {" ", "\n"}

RECURSIVE LStrip(_)
LStrip(t) ==
    IF t = <<>> THEN <<>>
    ELSE IF Head(t) \in Whitespace THEN LStrip(Tail(t)) ELSE t

RECURSIVE RStrip(_)
RStrip(t) ==
    IF t = <<>> THEN <<>>
    ELSE IF t[Len(t)] \in Whitespace THEN RStrip(SubSeq(t, 1, Len(t) - 1)) ELSE t

\* str.strip()
Strip(t) == RStrip(LStrip(t))

\* "\n".join(chunks)
RECURSIVE Join(_)
Join(chunks) ==
    IF chunks = <<>> THEN <<>>
    ELSE IF Len(chunks) = 1 THEN chunks[1]
    ELSE chunks[1] \o <<"\n">> \o Join(Tail(chunks))

(***************************************************************************)
(* The final verdict schema of SYSTEM_PROMPT.                              *)
(***************************************************************************)
VerdictFields ==
    {"incident_id", "status", "severity", "service", "summary", "evidence",
     "recommended_actions", "suggested_mitigations", "next_update_minutes"}

EvidenceFields ==
    {"metrics_window", "error_rate", "p95_latency_ms", "upstream_timeout_rate",
     "request_rate_rps", "log_window", "log_highlights", "recent_changes",
     "runbook_title"}

VerdictStatuses == {"in_progress", "failed"}

EvidenceDoc ==
    [metrics_window |-> NONE, error_rate |-> NONE, p95_latency_ms |-> NONE,
     upstream_timeout_rate |-> NONE, request_rate_rps |-> NONE,
     log_window |-> NONE, log_highlights |-> <<>>, recent_changes |-> <<>>,
     runbook_title |-> NONE]

VerdictDoc ==
    [incident_id |-> "INC-1", status |-> "in_progress", severity |-> "SEV1",
     service |-> "checkout", summary |-> "checkout down",
     evidence |-> EvidenceDoc, recommended_actions |-> <<>>,
     suggested_mitigations |-> <<>>, next_update_minutes |-> 15]

(***************************************************************************)
(* json.loads.  The JSON documents of the model, by their text, and the    *)
(* value each parses to.  Any other fragment is not JSON.                  *)
(***************************************************************************)
TxtVerdict == "{\"incident_id\": \"INC-1\", \"status\": \"in_progress\", ...all fields...}"
TxtVerdictExtra == "{\"incident_id\": \"INC-1\", ...all fields..., \"confidence\": \"high\"}"
TxtPartial == "{\"incident_id\": \"INC-1\", \"status\": \"in_progress\"}"
TxtEmptyObject == "{}"
TxtList == "[1]"
TxtArgsCreate == "{\"alert\": {\"incident_type\": \"payments_failing\", \"service\": \"checkout\", \"signal\": \"error_rate_spike\", \"start_time\": \"T0\", \"impact\": \"checkout down\"}}"
TxtArgsIncident == "{\"incident_id\": \"INC-1\"}"
TxtArgsNote == "{\"incident_id\": \"INC-1\", \"note_type\": \"comms\", \"payload\": {}}"
TxtArgsSearch == "{\"query\": \"gateway timeout\", \"k\": 2}"
TxtNotJson == "not json"

ScenarioAlert ==
    [incident_type |-> JStr("payments_failing"), service |-> JStr("checkout"),
     signal |-> JStr("error_rate_spike"), start_time |-> JStr("T0"),
     impact |-> JStr("checkout down")]

JsonDocs ==
    {TxtVerdict, TxtVerdictExtra, TxtPartial, TxtEmptyObject, TxtList,
     TxtArgsCreate, TxtArgsIncident, TxtArgsNote, TxtArgsSearch}

JsonValue(s) ==
    CASE s = TxtVerdict -> JDict(VerdictDoc)
      [] s = TxtVerdictExtra ->
            JDict([f \in VerdictFields \cup {"confidence"} |->
                      IF f = "confidence" THEN "high" ELSE VerdictDoc[f]])
      [] s = TxtPartial -> JDict([incident_id |-> "INC-1", status |-> "in_progress"])
      [] s = TxtEmptyObject -> JDict(EmptyDict)
      [] s = TxtList -> JList(<<1>>)
      [] s = TxtArgsCreate -> JDict([alert |-> JDict(ScenarioAlert)])
      [] s = TxtArgsIncident -> JDict([incident_id |-> "INC-1"])
      [] s = TxtArgsNote ->
            JDict([incident_id |-> "INC-1", note_type |-> "comms", payload |-> EmptyDict])
      [] s = TxtArgsSearch -> JDict([query |-> <<"gateway", " ", "timeout">>, k |-> 2])

\* json.loads(s) of a str s held as one fragment: the value, or JSONDecodeError.
JsonLoads(s) ==
    IF s \in JsonDocs THEN [ok |-> TRUE, value |-> JsonValue(s)]
    ELSE [ok |-> FALSE, value |-> NoneVal]

\* json.loads(t) of a text t: surrounding whitespace is skipped, then exactly
\* one document must remain ("Extra data" and "Expecting value" otherwise).
JsonLoadsText(t) ==
    LET core == Strip(t)
    IN  IF Len(core) = 1 THEN JsonLoads(core[1])
        ELSE [ok |-> FALSE, value |-> NoneVal]

(***************************************************************************)
(* Severity and default-assignee policies (app/incident_logic.py).         *)
(***************************************************************************)
allowed_incident_types == {"payments_failing", "login_outage", "latency_regression"}
allowed_signals == {"error_rate_spike", "availability_drop", "p95_latency_spike"}

\* classify_severity as it would be if it looked at the signal.
classify_severity_BySignal(alert) ==
    IF alert.signal = "availability_drop" THEN "SEV1" ELSE "SEV2"

classify_severity(alert) ==
    IF alert.incident_type \in {"payments_failing", "login_outage"} THEN "SEV1"
    ELSE IF alert.incident_type = "latency_regression" THEN "SEV2"
    ELSE "SEV3"

Assignee(team, role) == [team |-> team, role |-> role]

\* default_assignees as it would be with the type's team as a second Primary.
default_assignees_TwoPrimaries(alert) ==
    IF alert.incident_type = "payments_failing"
    THEN <<Assignee("Backend Oncall", "Primary"), Assignee("Payments Team", "Primary")>>
    ELSE <<Assignee("Backend Oncall", "Primary"), Assignee("Performance/Infra Team", "Primary")>>

default_assignees(alert) ==
    IF alert.incident_type = "payments_failing"
    THEN <<Assignee("Backend Oncall", "Primary"), Assignee("Payments Team", "Secondary")>>
    ELSE IF alert.incident_type = "login_outage"
    THEN <<Assignee("Backend Oncall", "Primary"), Assignee("Identity/Auth Team", "Secondary")>>
    ELSE <<Assignee("Backend Oncall", "Primary"), Assignee("Performance/Infra Team", "Secondary")>>

(***************************************************************************)
(* The Incident Repository and the clock, as the tools see them.           *)
(*   db.incidents : the Incident rows, in insertion order                  *)
(*   db.notes     : the IncidentNote rows, in insertion order              *)
(*   db.kb        : the rows of the kb_chunks table, in insertion order    *)
(*   db.clock     : the number of clock readings made so far               *)
(* A tool yields an outcome: the exception it raises (NONE when it         *)
(* returns), the dict it returns, and the database it leaves.              *)
(***************************************************************************)
\* datetime.now(timezone.utc).isoformat(), at the reading after c earlier ones.
NowIso(c) == "t" \o ToString(c + 1)

\* uuid4-based identifiers: the n-th identifier drawn is fresh.
NewIncidentId(n) == "INC-" \o ToString(n)
NewNoteId(n) == "NOTE-" \o ToString(n)

Returns(result, db) == [exc |-> NONE, result |-> result, db |-> db]
Raises(exc, db) == [exc |-> exc, result |-> EmptyDict, db |-> db]

\* session.exec(select(Incident).where(Incident.incident_id == id)).first()
FindIncident(incidents, incident_id) ==
    LET hits == {i \in 1..Len(incidents) : incidents[i].incident_id = incident_id}
    IN  IF hits = {} THEN <<>>
        ELSE <<incidents[CHOOSE i \in hits : \A j \in hits : i <= j]>>

NotFound == [ok |-> FALSE, reason |-> "incident not found"]

\* NormalType as it would be if a type given as a string were kept.
NormalType_Kept(alert) ==
    IF GetVal(alert, "incident_type").kind = "str"
    THEN alert.incident_type.str ELSE "payments_failing"

\* Lines 34-40: the incident type and signal after the fallbacks.
NormalType(alert) ==
    IF InStrs(GetVal(alert, "incident_type"), allowed_incident_types)
    THEN alert.incident_type.str ELSE "payments_failing"

NormalSignal(alert) ==
    IF InStrs(GetVal(alert, "signal"), allowed_signals)
    THEN alert.signal.str ELSE "error_rate_spike"

\* Lines 42-49: the dict handed to AlertPayload; clock is the number of clock
\* readings made before (_now_iso is read only when no start time is given).
Normalized(alert, clock) ==
    [incident_type |-> JStr(NormalType(alert)),
     service |-> OrVal(GetVal(alert, "service"), JStr("unknown")),
     signal |-> JStr(NormalSignal(alert)),
     start_time |-> OrVal(OrVal(GetVal(alert, "start_time"), GetVal(alert, "timestamp")),
                          JStr(NowIso(clock))),
     impact |-> OrVal(OrVal(GetVal(alert, "impact"), GetVal(alert, "short_summary")),
                      JStr("unknown impact")),
     region |-> GetVal(alert, "region")]

\* Clock readings made by line 46.
ReadsStart(alert) ==
    IF Truthy(OrVal(GetVal(alert, "start_time"), GetVal(alert, "timestamp"))) THEN 0 ELSE 1

\* AlertPayload(**normalized) validates: service, start_time and impact are
\* str, region is str or None.
Validates(normalized) ==
    /\ normalized.service.kind = "str"
    /\ normalized.start_time.kind = "str"
    /\ normalized.impact.kind = "str"
    /\ normalized.region.kind \in {"str", "none"}

\* The AlertPayload of a dict that validates.
Parsed(normalized) ==
    [incident_type |-> normalized.incident_type.str,
     service |-> normalized.service.str,
     signal |-> normalized.signal.str,
     start_time |-> normalized.start_time.str,
     impact |-> normalized.impact.str,
     region |-> IF normalized.region.kind = "none" THEN NONE ELSE normalized.region.str]

\* Lines 56-67: the Incident row.
IncidentRow(incident_id, parsed, created_at) ==
    [incident_id |-> incident_id,
     incident_type |-> parsed.incident_type,
     service |-> parsed.service,
     signal |-> parsed.signal,
     start_time |-> parsed.start_time,
     impact |-> parsed.impact,
     region |-> parsed.region,
     severity |-> classify_severity(parsed),
     created_at |-> created_at,
     assignees_json |-> JsonDumps(default_assignees(parsed))]

\* Persist as it would be if an incident of the same alert were stored once.
Persist_OncePerAlert(rows, row) ==
    IF \E i \in 1..Len(rows) :
          /\ rows[i].incident_type = row.incident_type
          /\ rows[i].service = row.service
          /\ rows[i].start_time = row.start_time
    THEN rows
    ELSE Append(rows, row)

\* Persist as it would be if the new row took the place of the latest one.
Persist_Overwriting(rows, row) ==
    IF rows = <<>> THEN <<row>> ELSE [rows EXCEPT ![Len(rows)] = row]

\* Lines 69-71: session.add(inc_row); session.commit().
Persist(rows, row) == Append(rows, row)

\* Lines 50-73, for an alert that validated.
CreateFrom(parsed, created_at, reads, db) ==
    Returns([incident_id |-> NewIncidentId(Len(db.incidents) + 1),
             severity |-> classify_severity(parsed),
             created_at |-> created_at],
            [db EXCEPT !.incidents =
                           Persist(@, IncidentRow(NewIncidentId(Len(db.incidents) + 1),
                                                  parsed, created_at)),
                       !.clock = @ + reads + 1])

create_incident_tool(alert, db) ==
    IF alert.kind # "dict" THEN Raises("AttributeError", db)
    ELSE IF ~Hashable(GetVal(alert.val, "incident_type")) THEN Raises("TypeError", db)
    ELSE IF ~Hashable(GetVal(alert.val, "signal")) THEN Raises("TypeError", db)
    ELSE IF ~Validates(Normalized(alert.val, db.clock))
    THEN Raises("ValidationError",
                [db EXCEPT !.clock = @ + ReadsStart(alert.val)])
    ELSE CreateFrom(Parsed(Normalized(alert.val, db.clock)),
                    NowIso(db.clock + ReadsStart(alert.val)),
                    ReadsStart(alert.val), db)

\* assign_owners_tool as it would be if a missing incident raised instead of
\* being reported.
assign_owners_tool_Raising(incident_id, db) ==
    IF FindIncident(db.incidents, incident_id) = <<>> THEN Raises("LookupError", db)
    ELSE Returns([incident_id |-> incident_id,
                  assignees |-> FindIncident(db.incidents, incident_id)[1].assignees_json.json],
                 db)

\* assign_owners_tool as it would be if it read the first Incident row.
assign_owners_tool_First(incident_id, db) ==
    IF FindIncident(db.incidents, incident_id) = <<>> THEN Returns(NotFound, db)
    ELSE Returns([incident_id |-> incident_id,
                  assignees |-> db.incidents[1].assignees_json.json], db)

assign_owners_tool(incident_id, db) ==
    LET inc == FindIncident(db.incidents, incident_id)
    IN  IF inc = <<>> THEN Returns(NotFound, db)
        ELSE Returns([incident_id |-> incident_id,
                      assignees |-> inc[1].assignees_json.json], db)

\* The four fixture documents of an incident type, in the order they are loaded.
FixtureNames == <<"logs", "metrics", "changes", "runbook">>

\* _load_fixture over the four names: the first document that is absent, if any.
FirstMissing(present) ==
    LET absent == {i \in 1..Len(FixtureNames) : FixtureNames[i] \notin present}
    IN  IF absent = {} THEN NONE
        ELSE FixtureNames[CHOOSE i \in absent : \A j \in absent : i <= j]

\* present: the fixture documents that exist on disk for the incident's type.
get_evidence_tool(incident_id, db, present) ==
    LET inc == FindIncident(db.incidents, incident_id)
    IN  IF inc = <<>> THEN Returns(NotFound, db)
        ELSE IF FirstMissing(present) # NONE
        THEN Returns([ok |-> FALSE,
                      reason |-> "Missing fixture: " \o inc[1].incident_type
                                 \o "/" \o FirstMissing(present) \o ".json"], db)
        ELSE Returns([incident_id |-> inc[1].incident_id,
                      incident_type |-> inc[1].incident_type,
                      service |-> inc[1].service,
                      region |-> inc[1].region,
                      evidence_bundle |->
                          [n \in {"logs", "metrics", "changes", "runbook"} |->
                              [fixture |-> inc[1].incident_type \o "/" \o n \o ".json"]]],
                     db)

\* CountNotes as it would be if the select had no where clause.
CountNotes_All(notes, incident_id) == Len(notes)

CountNotes(notes, incident_id) ==
    Cardinality({i \in 1..Len(notes) : notes[i].incident_id = incident_id})

\* add_note_tool as it would be without the lookup of the incident.
add_note_tool_Unchecked(incident_id, note_type, payload, title, created_by, db) ==
    Returns([ok |-> TRUE, incident_id |-> incident_id,
             note_id |-> NewNoteId(Len(db.notes) + 1), created_at |-> NowIso(db.clock),
             notes_count |-> Len(db.notes) + 1],
            [db EXCEPT !.notes = Append(@, [note_id |-> NewNoteId(Len(db.notes) + 1),
                                            incident_id |-> incident_id,
                                            created_at |-> NowIso(db.clock),
                                            type |-> note_type, title |-> title,
                                            payload_json |-> JsonDumps(payload),
                                            created_by |-> created_by]),
                       !.clock = @ + 1])

add_note_tool(incident_id, note_type, payload, title, created_by, db) ==
    LET inc == FindIncident(db.incidents, incident_id)
        note_id == NewNoteId(Len(db.notes) + 1)
        created_at == NowIso(db.clock)
        row == [note_id |-> note_id, incident_id |-> incident_id,
                created_at |-> created_at, type |-> note_type, title |-> title,
                payload_json |-> JsonDumps(payload), created_by |-> created_by]
        notes2 == Append(db.notes, row)
    IN  IF inc = <<>> THEN Returns(NotFound, db)
        ELSE Returns([ok |-> TRUE, incident_id |-> incident_id, note_id |-> note_id,
                      created_at |-> created_at,
                      notes_count |-> CountNotes(notes2, incident_id)],
                     [db EXCEPT !.notes = notes2, !.clock = @ + 1])

(***************************************************************************)
(* Knowledge Base Index (app/kb.py).  A row of kb_chunks keeps its columns *)
(* and, for matching, the set of query terms the FTS5 index finds in it    *)
(* (the lower-cased words and underscore-joined phrases of its columns).   *)
(***************************************************************************)
seed_rows ==
    << [chunk_id |-> "rb-payments-001",
        title |-> "Runbook: Payments failing - gateway timeouts",
        tags |-> "payments_failing checkout_api gateway timeout circuit_breaker",
        source |-> "runbooks/payments_failing.md#gateway-timeouts",
        terms |-> {"rb", "payments", "001", "runbook", "failing", "gateway",
                   "timeouts", "payments_failing", "checkout_api", "checkout",
                   "api", "timeout", "gateway_timeout", "circuit_breaker",
                   "circuit", "breaker",
                   "health", "upstream", "error_rate", "deploy", "rollback"}],
       [chunk_id |-> "pol-sev-001",
        title |-> "Policy: Severity rubric",
        tags |-> "sev sev1 sev2 sev3 policy",
        source |-> "policies/severity.md",
        terms |-> {"pol", "sev", "001", "policy", "severity", "rubric", "sev1",
                   "sev2", "sev3", "payments", "failing", "or", "login", "outage",
                   "payments_failing", "login_outage", "customer", "impact",
                   "latency"}],
       [chunk_id |-> "tpl-comms-001",
        title |-> "Comms: Status update guidance",
        tags |-> "comms status_update template guidance",
        source |-> "templates/comms.md#status-updates",
        terms |-> {"tpl", "comms", "001", "status", "update", "guidance",
                   "status_update", "template", "customer", "impact",
                   "mitigation"}] >>

\* Fragments of a query text that FTS5 reads as syntax rather than as a word.
Fts5Special == {"-", ":", "\"", "*"}
Fts5Reserved == {"(", ")", "OR"} \cup Fts5Special

IsWord(tok) == tok \notin Fts5Reserved /\ tok \notin Whitespace

RowsWith(word, rows) == {i \in 1..Len(rows) : word \in rows[i].terms}

FtsFail == [ok |-> FALSE, rest |-> <<>>, hits |-> {}]

\* The FTS5 query grammar over the tokens ts:
\*   expr := and ("OR" and)* ;  and := unit unit* ;  unit := word | "(" expr ")"
\* A parse yields [ok, rest, hits]: whether a phrase was read, the tokens
\* left, and the rows the phrase matches.
RECURSIVE FtsExpr(_, _)
RECURSIVE FtsAnd(_, _)
RECURSIVE FtsUnit(_, _)

\* unit := "(" expr ")" once expr is read as e.
FtsClose(e) ==
    IF e.ok /\ e.rest # <<>> /\ Head(e.rest) = ")"
    THEN [e EXCEPT !.rest = Tail(e.rest)]
    ELSE FtsFail

FtsUnit(ts, rows) ==
    IF ts = <<>> THEN FtsFail
    ELSE IF Head(ts) = "(" THEN FtsClose(FtsExpr(Tail(ts), rows))
    ELSE IF IsWord(Head(ts))
    THEN [ok |-> TRUE, rest |-> Tail(ts), hits |-> RowsWith(Head(ts), rows)]
    ELSE FtsFail

FtsMeet(hits, a) == IF a.ok THEN [a EXCEPT !.hits = @ \cap hits] ELSE FtsFail
FtsJoin(hits, e) == IF e.ok THEN [e EXCEPT !.hits = @ \cup hits] ELSE FtsFail

\* and := unit unit* once the first unit is read as u (implicit AND).
FtsAndRest(u, rows) ==
    IF ~u.ok THEN FtsFail
    ELSE IF u.rest # <<>> /\ (Head(u.rest) = "(" \/ IsWord(Head(u.rest)))
    THEN FtsMeet(u.hits, FtsAnd(u.rest, rows))
    ELSE u

FtsAnd(ts, rows) == FtsAndRest(FtsUnit(ts, rows), rows)

\* expr := and ("OR" and)* once the first and is read as a.
FtsExprRest(a, rows) ==
    IF ~a.ok THEN FtsFail
    ELSE IF a.rest # <<>> /\ Head(a.rest) = "OR"
    THEN FtsJoin(a.hits, FtsExpr(Tail(a.rest), rows))
    ELSE a

FtsExpr(ts, rows) == FtsExprRest(FtsAnd(ts, rows), rows)

FtsWhole(e) ==
    IF e.ok /\ e.rest = <<>> THEN [ok |-> TRUE, hits |-> e.hits]
    ELSE [ok |-> FALSE, hits |-> {}]

\* kb_chunks MATCH q2: the matching rows, or a syntax error (OperationalError).
Fts5Match(q2, rows) ==
    FtsWhole(FtsExpr(SelectSeq(q2, LAMBDA f : f \notin Whitespace), rows))

\* The length of the longest prefix of s that holds no whitespace.
RECURSIVE WordLen(_)
WordLen(s) ==
    IF s = <<>> \/ Head(s) \in Whitespace THEN 0 ELSE 1 + WordLen(Tail(s))

\* str.split(): the maximal runs of non-whitespace fragments.
RECURSIVE Split(_)
SplitStripped(s, n) ==
    IF s = <<>> THEN <<>>
    ELSE <<SubSeq(s, 1, n)>> \o Split(SubSeq(s, n + 1, Len(s)))

SplitFrom(s) == SplitStripped(s, WordLen(s))

Split(t) == SplitFrom(LStrip(t))

\* sep.join(parts) for texts.
RECURSIVE JoinWith(_, _)
JoinWith(sep, parts) ==
    IF parts = <<>> THEN <<>>
    ELSE IF Len(parts) = 1 THEN parts[1]
    ELSE parts[1] \o sep \o JoinWith(sep, Tail(parts))

\* The first n elements of s in increasing index order (LIMIT n; a negative
\* LIMIT is no limit).
Least(S) == CHOOSE x \in S : \A y \in S : x <= y

RECURSIVE Ascending(_)
Ascending(S) ==
    IF S = {} THEN <<>> ELSE <<Least(S)>> \o Ascending(S \ {Least(S)})

Limit(s, n) == IF n < 0 \/ n >= Len(s) THEN s ELSE SubSeq(s, 1, n)

\* The free-text query with the tag terms OR-ed in (kb_search, q2).
MatchQuery(q1, tag_terms) ==
    IF tag_terms # <<>>
    THEN <<"(">> \o q1 \o <<")", " ", "OR", " ", "(">>
         \o JoinWith(<<" ", "OR", " ">>, tag_terms) \o <<")">>
    ELSE q1

\* The rows returned for the row numbers in order.
ResultRows(rows, order) ==
    [i \in 1..Len(order) |->
        [chunk_id |-> rows[order[i]].chunk_id, title |-> rows[order[i]].title,
         source |-> rows[order[i]].source, tags |-> rows[order[i]].tags]]

Ranked(m, k, rows) ==
    IF ~m.ok THEN [exc |-> "OperationalError", results |-> <<>>]
    ELSE [exc |-> NONE, results |-> ResultRows(rows, Limit(Ascending(m.hits), k))]

\* kb_search(q, k, tags); tags is a text, empty for None.  The bm25 order of
\* the matching rows is abstracted to their insertion order; the score and
\* the snippet of a result are left out.
kb_search(q, k, tags, rows) ==
    Ranked(Fts5Match(MatchQuery(Strip(q), Split(tags)), rows), k, rows)

SearchResult(query, k, found, db) ==
    IF found.exc # NONE THEN Raises(found.exc, db)
    ELSE Returns([query |-> query, top_k |-> k, results |-> found.results], db)

search_kb_tool(query, k, incident_type, service, db) ==
    SearchResult(query, k,
                 kb_search(query, k,
                           JoinWith(<<" ">>, SelectSeq(<<incident_type, service>>,
                                                       LAMBDA t : t # <<>>)),
                           db.kb),
                 db)

(***************************************************************************)
(* The HTTP search endpoint (app/main.py, GET /kb/search).  A text is a    *)
(* sequence of fragments; str.lower() and the test `tok in q_lower` are    *)
(* read fragment by fragment, the fragments of a query being whole words.  *)
(***************************************************************************)
Lower(f) ==
    CASE f = "OR" -> "or"
      [] f = "SEV1" -> "sev1"
      [] f = "Gateway" -> "gateway"
      [] OTHER -> f

\* Adjacent fragments of one word are one fragment.
RECURSIVE Glue(_)
Glue(s) ==
    IF Len(s) < 2 THEN s
    ELSE IF {s[1], s[2]} \cap (Whitespace \cup (Fts5Reserved \ {"OR"})) = {}
    THEN Glue(<<s[1] \o s[2]>> \o SubSeq(s, 3, Len(s)))
    ELSE <<s[1]>> \o Glue(Tail(s))

\* s.replace("-", "_").lower()
normalize_fts_token(s) ==
    Glue([i \in 1..Len(s) |-> IF s[i] = "-" THEN "_" ELSE Lower(s[i])])

\* The set sev_tokens, in the order it is iterated.
sev_tokens == <<"sev1", "sev2", "sev3">>

Contains(text, tok) == \E i \in 1..Len(text) : text[i] = tok

LowerText(s) == [i \in 1..Len(s) |-> Lower(s[i])]

\* Lines 259-263: the condition of the severity rewrite.
MentionsSeverity(q_lower) ==
    \E tok \in {"sev1", "sev2", "sev3", "severity", "rubric"} : Contains(q_lower, tok)

\* Line 264: the tokens of sev_tokens the query mentions.
Mentioned(q_lower) == SelectSeq(sev_tokens, LAMBDA tok : Contains(q_lower, tok))

\* Lines 259-270: q_norm before the last normalization.
SeverityRewrite(q_raw) ==
    IF MentionsSeverity(LowerText(q_raw))
    THEN JoinWith(<<" ", "OR", " ">>,
                  [i \in 1..(4 + Len(Mentioned(LowerText(q_raw)))) |->
                      <<(<<"sev", "severity", "rubric", "policy">>
                         \o Mentioned(LowerText(q_raw)))[i]>>])
    ELSE q_raw

KBSearchResponse(q, q_norm, k, found, db) ==
    IF found.exc # NONE THEN Raises(found.exc, db)
    ELSE Returns([query |-> q, matched_query |-> q_norm, top_k |-> k,
                  results |-> found.results], db)

\* search_kb(q, k, incident_type, service); k is declared Query(3, ge=1, le=10).
search_kb(q, k, incident_type, service, db) ==
    IF k \notin 1..10 THEN Raises("RequestValidationError", db)
    ELSE KBSearchResponse(q, normalize_fts_token(SeverityRewrite(Strip(q))), k,
                          kb_search(normalize_fts_token(SeverityRewrite(Strip(q))), k,
                                    Strip(JoinWith(<<" ">>,
                                        [i \in 1..Len(SelectSeq(<<incident_type, service>>,
                                                                LAMBDA t : t # <<>>))
                                           |-> normalize_fts_token(
                                                  SelectSeq(<<incident_type, service>>,
                                                            LAMBDA t : t # <<>>)[i])])),
                                    db.kb),
                          db)

(***************************************************************************)
(* Tool Dispatcher (app/agent_tools.py).  args is the tagged value that    *)
(* _parse_tool_args produced; present is the set of fixture documents on   *)
(* disk for the incident type get_evidence looks up.                       *)
(***************************************************************************)
TOOL_SCHEMAS == <<"create_incident", "assign_owners", "get_evidence", "kb_search", "add_note">>

ToolNames == {TOOL_SCHEMAS[i] : i \in 1..Len(TOOL_SCHEMAS)}

\* args.get(k) for a key that holds a text (None and absent read as empty).
GetText(d, k) == IF k \in DOMAIN d THEN d[k] ELSE <<>>

UnknownTool(name) == [ok |-> FALSE, reason |-> "unknown tool '" \o name \o "'"]

\* The keys a branch of dispatch_tool subscripts (args[...]), in order.
Subscripted(name) ==
    CASE name = "create_incident" -> {"alert"}
      [] name = "assign_owners" -> {"incident_id"}
      [] name = "get_evidence" -> {"incident_id"}
      [] name = "kb_search" -> {"query"}
      [] name = "add_note" -> {"incident_id", "note_type"}
      [] OTHER -> {}

\* dispatch_tool as it would be if the arguments were read before the name
\* is looked up.
dispatch_tool_ArgsFirst(name, args, db, present) ==
    IF args.kind # "dict" THEN Raises("TypeError", db)
    ELSE IF "incident_id" \notin DOMAIN args.val THEN Raises("KeyError", db)
    ELSE IF name = "assign_owners" THEN assign_owners_tool(args.val.incident_id, db)
    ELSE IF name = "get_evidence" THEN get_evidence_tool(args.val.incident_id, db, present)
    ELSE Returns(UnknownTool(name), db)

dispatch_tool(name, args, db, present) ==
    IF name \notin ToolNames THEN Returns(UnknownTool(name), db)
    ELSE IF args.kind # "dict" THEN Raises("TypeError", db)
    ELSE IF ~(Subscripted(name) \subseteq DOMAIN args.val) THEN Raises("KeyError", db)
    ELSE LET a == args.val
         IN  CASE name = "create_incident" -> create_incident_tool(a.alert, db)
               [] name = "assign_owners" -> assign_owners_tool(a.incident_id, db)
               [] name = "get_evidence" -> get_evidence_tool(a.incident_id, db, present)
               [] name = "kb_search" ->
                     search_kb_tool(a.query, IF "k" \in DOMAIN a THEN a.k ELSE 3,
                                    GetText(a, "incident_type"), GetText(a, "service"), db)
               [] name = "add_note" ->
                     add_note_tool(a.incident_id, a.note_type,
                                   IF "payload" \in DOMAIN a THEN a.payload ELSE EmptyDict,
                                   Get(a, "title"), Get(a, "created_by"), db)

(***************************************************************************)
(* Conversation Orchestrator (app/agent.py): pure parts.                   *)
(***************************************************************************)
MaxSteps == 6

SYSTEM_PROMPT == <<"SYSTEM_PROMPT">>

Failure(reason) == JDict([status |-> "failed", reason |-> reason])

_parse_tool_args(arg_value) ==
    IF arg_value.kind = "dict" THEN arg_value
    ELSE IF arg_value.kind = "str"
    THEN IF JsonLoads(arg_value.str).ok THEN JsonLoads(arg_value.str).value
         ELSE JDict(EmptyDict)
    ELSE JDict(EmptyDict)

\* The text chunks of the parts of a list-valued message content.
RECURSIVE PartChunks(_)
PartChunks(parts) ==
    IF parts = <<>> THEN <<>>
    ELSE LET part == Head(parts)
             text == GetText(part, "text")
         IN  (IF Get(part, "type") \in {"output_text", "text"} /\ text # <<>>
              THEN <<text>> ELSE <<>>)
             \o PartChunks(Tail(parts))

RECURSIVE OutputChunks(_)
OutputChunks(output_items) ==
    IF output_items = <<>> THEN <<>>
    ELSE LET item == Head(output_items)
             content == GetVal(item, "content")
         IN  (IF Get(item, "type") # "message" THEN <<>>
              ELSE IF content.kind = "str" THEN <<content.text>>
              ELSE IF content.kind = "list" THEN PartChunks(content.parts)
              ELSE <<>>)
             \o OutputChunks(Tail(output_items))

_extract_output_text(output_items) == Strip(Join(OutputChunks(output_items)))

\* An item of an output list is a turn when it is a JSON object: the model
\* holds a turn as the record of its keys and any other JSON value tagged.
IsTurn(item) == "kind" \notin DOMAIN item

\* Line 115 calls item.get on every item: it raises on one that is no object.
AllTurns(output_items) == \A i \in DOMAIN output_items : IsTurn(output_items[i])

\* tool_calls = [item for item in output_items if item.get("type") == "function_call"]
ToolCallsOf(output_items) ==
    SelectSeq(output_items, LAMBDA item : Get(item, "type") = "function_call")

\* Line 131: the textual answer of a response,
\*   _extract_output_text(output_items) or response.get("output_text", "")
FirstNonEmpty(extracted, fallback) == IF extracted # <<>> THEN extracted ELSE fallback

AnswerText(resp, output_items) ==
    FirstNonEmpty(_extract_output_text(output_items), GetText(resp, "output_text"))

\* Verdict as it would be if the raw text were left out of the failure.
Verdict_RawDropped(output_text, parsed) ==
    IF output_text = <<>> THEN Failure("openai_empty_output")
    ELSE IF parsed.ok THEN parsed.value
    ELSE Failure("openai_non_json")

\* Verdict as it would be without the test for an empty answer.
Verdict_NoEmptyCheck(output_text, parsed) ==
    IF parsed.ok THEN parsed.value
    ELSE JDict([status |-> "failed", reason |-> "openai_non_json", raw |-> output_text])

\* Lines 132-138 on the textual answer and what json.loads makes of it.
Verdict(output_text, parsed) ==
    IF output_text = <<>> THEN Failure("openai_empty_output")
    ELSE IF parsed.ok THEN parsed.value
    ELSE JDict([status |-> "failed", reason |-> "openai_non_json", raw |-> output_text])

\* Lines 131-138: the result of a response that requests no tool call.
FinalAnswer(resp, output_items) ==
    Verdict(AnswerText(resp, output_items), JsonLoadsText(AnswerText(resp, output_items)))

\* ToolResultTurn as it would be if the call identifier were not copied.
ToolResultTurn_NoCallId(call, result) ==
    [type |-> "function_call_output", call_id |-> NONE, output |-> JsonDumps(result)]

\* Lines 122-128: the tool-result turn appended for a call.
ToolResultTurn(call, result) ==
    [type |-> "function_call_output", call_id |-> Get(call, "call_id"),
     output |-> JsonDumps(result)]

(***************************************************************************)
(* What the model transport may answer.                                    *)
(***************************************************************************)
Msg(content) == [type |-> "message", role |-> "assistant", content |-> content]
StrContent(t) == [kind |-> "str", text |-> t]
PartsContent(ps) == [kind |-> "list", parts |-> ps]
OutText(t) == [type |-> "output_text", text |-> t]
Call(name, arguments) == [type |-> "function_call", name |-> name, arguments |-> arguments]
ArgStr(s) == [kind |-> "str", str |-> s]

\* The routine tool-call response: one assign_owners request.
RoutineOutput == <<Call("assign_owners", ArgStr(TxtArgsIncident))>>

\* Outputs that request tool calls the dispatcher answers.
AnsweredOutputs ==
    { <<Call("create_incident", ArgStr(TxtArgsCreate))>>,
      <<Call("get_evidence", ArgStr(TxtArgsIncident))>>,
      <<Call("add_note", ArgStr(TxtArgsNote))>>,
      <<Call("kb_search", ArgStr(TxtArgsSearch))>>,
      <<Call("restart_service", ArgStr(TxtEmptyObject))>>,
      <<[type |-> "function_call", arguments |-> ArgStr(TxtEmptyObject)]>>,
      <<Call("create_incident", ArgStr(TxtArgsCreate)),
        Call("get_evidence", ArgStr(TxtArgsIncident))>>,
      <<Msg(StrContent(<<"thinking">>)),
        Call("assign_owners", JDict([incident_id |-> "INC-1"]))>>,
      <<Call("add_note", ArgStr(TxtArgsNote)),
        Call("restart_service", ArgStr(TxtNotJson))>> }

\* Outputs that request a known tool with arguments of the wrong shape.
MalformedCallOutputs ==
    { <<Call("assign_owners", ArgStr(TxtEmptyObject))>>,
      <<Call("add_note", ArgStr(TxtNotJson))>>,
      <<Call("create_incident", ArgStr(TxtList))>>,
      <<[type |-> "function_call", name |-> "get_evidence"]>>,
      <<Call("get_evidence", ArgStr(TxtArgsIncident)),
        Call("assign_owners", ArgStr(TxtEmptyObject))>> }

ToolOutputs == {RoutineOutput} \cup AnsweredOutputs \cup MalformedCallOutputs

\* Outputs that request no tool call.
AnswerOutputs ==
    { <<>>,
      <<Msg(StrContent(<<" ">>))>>,
      <<Msg(StrContent(<<TxtNotJson>>))>>,
      <<Msg(StrContent(<<TxtList>>))>>,
      <<[type |-> "message", role |-> "assistant"]>>,
      <<Msg(PartsContent(<<OutText(<<>>)>>))>>,
      <<Msg(PartsContent(<<[type |-> "refusal", refusal |-> <<"no">>]>>))>>,
      <<Msg(PartsContent(<<OutText(<<" ", TxtVerdict, "\n">>)>>))>>,
      <<[type |-> "reasoning"], Msg(PartsContent(<<OutText(<<TxtVerdictExtra>>)>>))>>,
      <<Msg(PartsContent(<<OutText(<<TxtPartial>>)>>))>>,
      <<Msg(PartsContent(<<OutText(<<TxtEmptyObject>>)>>))>>,
      <<Msg(PartsContent(<<OutText(<<TxtEmptyObject>>), OutText(<<TxtEmptyObject>>)>>))>>,
      <<Msg(StrContent(<<" ", TxtNotJson, " ">>))>> }

\* Response bodies (resp.json()) whose output is a list of turns.
ListBodies ==
    {JDict([output |-> JList(o)]) : o \in ToolOutputs \cup AnswerOutputs}

\* Response bodies of another shape.
OtherBodies ==
    { JDict(EmptyDict),
      JDict([output_text |-> <<TxtNotJson>>]),
      JDict([output |-> JList(<<>>), output_text |-> <<TxtEmptyObject>>]),
      JDict([output |-> [kind |-> "str", text |-> <<"error">>]]),
      JDict([output |-> NoneVal]),
      JDict([output |-> JList(<<ArgStr("oops")>>)]),
      JDict([output |-> JList(<<Call("assign_owners", ArgStr(TxtArgsIncident)), NoneVal>>)]),
      JList(<<>>) }

Bodies == ListBodies \cup OtherBodies

\* What requests.post / raise_for_status / resp.json() may raise.
TransportErrors == {"Timeout", "HTTPError"}

\* response.get("output", [])
OutputOf(body) == IF "output" \in DOMAIN body.val THEN body.val.output ELSE JList(<<>>)

HasToolCalls(body) ==
    /\ body.kind = "dict"
    /\ OutputOf(body).kind = "list"
    /\ AllTurns(OutputOf(body).items)
    /\ ToolCallsOf(OutputOf(body).items) # <<>>

\* The transport gives every function_call of a response a fresh call_id:
\* prefix and the number of the call.
RECURSIVE StampWith(_, _, _)
StampWith(prefix, items, n) ==
    IF items = <<>> THEN <<>>
    ELSE IF Get(Head(items), "type") = "function_call"
    THEN <<[k \in DOMAIN Head(items) \cup {"call_id"} |->
               IF k = "call_id" THEN prefix \o ToString(n + 1) ELSE Head(items)[k]]>>
         \o StampWith(prefix, Tail(items), n + 1)
    ELSE <<Head(items)>> \o StampWith(prefix, Tail(items), n)

Stamp(items, n) == StampWith("call_", items, n)

Stamped(body, n) ==
    IF body.kind = "dict" /\ OutputOf(body).kind = "list" /\ "output" \in DOMAIN body.val
    THEN JDict([body.val EXCEPT !.output = JList(Stamp(@.items, n))])
    ELSE body

\* The fixture documents present for an incident type.
FixtureStates == {{"logs", "metrics", "changes", "runbook"}, {"logs", "changes", "runbook"}}

(***************************************************************************)
(* State.                                                                  *)
(***************************************************************************)
VARIABLES
    api_key,      \* os.getenv("OPENAI_API_KEY"): NONE when unset
    pc,           \* "start", "loop", "tools", "done" (returned), "raised"
    step,         \* iterations of `for _ in range(6)` begun
    n_calls,      \* invocations of _openai_response
    n_dispatched, \* tool calls resolved (dispatch_tool or missing_tool_name)
    payload,      \* the payload of the latest invocation
    response,     \* the body the latest invocation returned, NoneVal if it raised
    input_items,  \* the conversation state
    tool_calls,   \* the tool calls of the current response still to resolve
    result,       \* the value run_incident_agent returned
    exc,          \* the exception that left run_incident_agent
    incidents,    \* Incident rows
    notes,        \* IncidentNote rows
    kb,           \* kb_chunks rows
    clock,        \* clock readings made
    varied,       \* tool-call responses taken from the whole menu
    runs,         \* the call frames of concurrently executing runs, by run
    last,         \* the latest direct call of a tool and its outcome
    seeders,      \* the seed runs of the knowledge base: write lock, runs, frames
    _QUEUE,       \* approvals_store._QUEUE: the approval items, in enqueue order
    handed        \* the ids of the items GET /approvals/next returned, in order

run_vars == <<api_key, pc, step, n_calls, n_dispatched, payload, response,
              input_items, tool_calls, result, exc, varied>>
store_vars == <<incidents, notes, kb, clock>>
approval_vars == <<_QUEUE, handed>>
vars == <<run_vars, store_vars, runs, last, seeders, approval_vars>>

Db == [incidents |-> incidents, notes |-> notes, kb |-> kb, clock |-> clock]

NoExc == [type |-> NONE, at |-> NONE]
NoPayload == [model |-> NONE, input |-> <<>>, tools |-> <<>>]

ApiKeys == {NONE, "", "sk-test"}

\* The state when run_incident_agent(ScenarioAlert) is called: the service
\* has started (the knowledge base is seeded) and holds no incident yet.
Init ==
    /\ api_key \in ApiKeys
    /\ pc = "start"
    /\ step = 0
    /\ n_calls = 0
    /\ n_dispatched = 0
    /\ payload = NoPayload
    /\ response = NoneVal
    /\ input_items = <<>>
    /\ tool_calls = <<>>
    /\ result = NoneVal
    /\ exc = NoExc
    /\ incidents = <<>>
    /\ notes = <<>>
    /\ kb = seed_rows
    /\ clock = 0
    /\ varied = 0
    /\ runs = <<>>
    /\ last = <<>>
    /\ seeders = <<>>
    /\ _QUEUE = <<>>
    /\ handed = <<>>

\* Configured as it would be if only an unset key were refused.
Configured_NotNone(key) == key # NONE

\* Line 99: `if not api_key` fails for a key that is set and not empty.
Configured(key) == key \notin {NONE, ""}

\* Lines 102-105: the conversation state a run begins with.
InitialItems(alert) ==
    << [type |-> "message", role |-> "system",
        content |-> [kind |-> "str", text |-> SYSTEM_PROMPT]],
       [type |-> "message", role |-> "user",
        content |-> [kind |-> "str", dumped |-> JsonDumps(alert)]] >>

\* Lines 98-105.
Start ==
    /\ pc = "start"
    /\ IF ~Configured(api_key)
       THEN /\ result' = Failure("openai_not_configured")
            /\ pc' = "done"
            /\ UNCHANGED input_items
       ELSE /\ input_items' = InitialItems(ScenarioAlert)
            /\ pc' = "loop"
            /\ UNCHANGED result
    /\ UNCHANGED <<api_key, step, n_calls, n_dispatched, payload, response,
                   tool_calls, exc, varied, store_vars, runs, last, seeders, approval_vars>>

\* Line 140: the loop ran out of iterations.
Exhausted ==
    /\ pc = "loop"
    /\ step = MaxSteps
    /\ result' = Failure("openai_max_steps")
    /\ pc' = "done"
    /\ UNCHANGED <<api_key, step, n_calls, n_dispatched, payload, response,
                   input_items, tool_calls, exc, varied, store_vars, runs, last, seeders, approval_vars>>

\* The request as it would be if a run sent only its first two turns.
Payload_Stateless(items) ==
    [model |-> "OPENAI_MODEL", input |-> SubSeq(items, 1, 2), tools |-> TOOL_SCHEMAS]

\* _openai_response, lines 82-92: the request sent.
Payload(items) == [model |-> "OPENAI_MODEL", input |-> items, tools |-> TOOL_SCHEMAS]

\* Line 108, when _openai_response raises (timeout, connection or HTTP
\* error): nothing in run_incident_agent catches it.
TransportRaises ==
    /\ pc = "loop"
    /\ step < MaxSteps
    /\ \E e \in TransportErrors :
          exc' = [type |-> e, at |-> "transport"]
    /\ step' = step + 1
    /\ n_calls' = n_calls + 1
    /\ payload' = Payload(input_items)
    /\ response' = NoneVal
    /\ pc' = "raised"
    /\ UNCHANGED <<api_key, n_dispatched, input_items, tool_calls, result,
                   varied, store_vars, runs, last, seeders, approval_vars>>

\* Lines 109-138 on the body the transport returned (tool calls excepted:
\* those are resolved one by one by Dispatch).
HandleOn(body, items) ==
    IF body.kind # "dict"
    THEN [pc |-> "raised", exc |-> [type |-> "AttributeError", at |-> "response"],
          result |-> NoneVal, input_items |-> items, tool_calls |-> <<>>]
    ELSE IF OutputOf(body).kind # "list"
    THEN [pc |-> "done", exc |-> NoExc, result |-> Failure("openai_bad_output"),
          input_items |-> items, tool_calls |-> <<>>]
    ELSE IF ~AllTurns(OutputOf(body).items)
    THEN [pc |-> "raised", exc |-> [type |-> "AttributeError", at |-> "output"],
          result |-> NoneVal, input_items |-> items \o OutputOf(body).items,
          tool_calls |-> <<>>]
    ELSE LET output_items == OutputOf(body).items
             calls == ToolCallsOf(output_items)
         IN  IF calls # <<>>
             THEN [pc |-> "tools", exc |-> NoExc, result |-> NoneVal,
                   input_items |-> items \o output_items, tool_calls |-> calls]
             ELSE [pc |-> "done", exc |-> NoExc,
                   result |-> FinalAnswer(body.val, output_items),
                   input_items |-> items \o output_items, tool_calls |-> <<>>]

Handle(body) == HandleOn(body, input_items)

\* Lines 108-138: one invocation of the transport that returns a body.
TransportResponds ==
    /\ pc = "loop"
    /\ step < MaxSteps
    /\ \E b \in Bodies :
          LET body == Stamped(b, n_dispatched)
              fresh == HasToolCalls(b) /\ OutputOf(b).items # RoutineOutput
              h == Handle(body)
          IN  /\ fresh => varied < MaxVaried
              /\ varied' = IF fresh THEN varied + 1 ELSE varied
              /\ response' = body
              /\ pc' = h.pc
              /\ exc' = h.exc
              /\ result' = h.result
              /\ input_items' = h.input_items
              /\ tool_calls' = h.tool_calls
    /\ step' = step + 1
    /\ n_calls' = n_calls + 1
    /\ payload' = Payload(input_items)
    /\ UNCHANGED <<api_key, n_dispatched, store_vars, runs, last, seeders, approval_vars>>

\* Lines 117-129: resolve the next tool call of the response.
Resolve(call, db, present) ==
    LET name == Get(call, "name")
        args == _parse_tool_args(GetVal(call, "arguments"))
    IN  IF name \in {NONE, ""}
        THEN Returns([ok |-> FALSE, reason |-> "missing_tool_name"], db)
        ELSE dispatch_tool(name, args, db, present)

\* Lines 121-129 on the outcome of the call: the exception leaves the run,
\* or the result is appended as the tool-result turn of the call.
Settle(call, out) ==
    /\ incidents' = out.db.incidents
    /\ notes' = out.db.notes
    /\ kb' = out.db.kb
    /\ clock' = out.db.clock
    /\ IF out.exc # NONE
       THEN /\ exc' = [type |-> out.exc, at |-> "dispatch"]
            /\ pc' = "raised"
            /\ UNCHANGED <<input_items, tool_calls>>
       ELSE /\ input_items' = Append(input_items, ToolResultTurn(call, out.result))
            /\ tool_calls' = Tail(tool_calls)
            /\ pc' = IF Tail(tool_calls) = <<>> THEN "loop" ELSE "tools"
            /\ UNCHANGED exc

Dispatch ==
    /\ pc = "tools"
    /\ tool_calls # <<>>
    /\ \E present \in FixtureStates :
          Settle(Head(tool_calls), Resolve(Head(tool_calls), Db, present))
    /\ n_dispatched' = n_dispatched + 1
    /\ UNCHANGED <<api_key, step, n_calls, payload, response, result, varied,
                   runs, last, seeders, approval_vars>>

Next ==
    \/ Start
    \/ Exhausted
    \/ TransportRaises
    \/ TransportResponds
    \/ Dispatch

Spec == Init /\ [][Next]_vars

(***************************************************************************)
(* Concurrent runs.  handle_slack_actions starts one thread per approved   *)
(* alert and each thread calls run_incident_agent; the threads interleave  *)
(* at every transport invocation and every tool call.  runs[r] is the call *)
(* frame of run r (the locals of run_incident_agent); the Incident         *)
(* Repository and the Knowledge Base Index are shared.                     *)
(***************************************************************************)
NumRuns == 2
MaxRunVaried == 1

Runs == 1..NumRuns

\* The alert of run r.
AlertOf(r) ==
    IF r = 1 THEN ScenarioAlert
    ELSE [ScenarioAlert EXCEPT !.service = JStr("service-" \o ToString(r))]

\* The call identifiers the transport gives the tool calls of run r.
RunPrefix(r) == "run" \o ToString(r) \o "_call_"

NewFrame ==
    [pc |-> "start", step |-> 0, n_calls |-> 0, n_dispatched |-> 0,
     sent |-> <<>>, input_items |-> <<>>, tool_calls |-> <<>>,
     result |-> NoneVal, exc |-> NoExc, varied |-> 0]

\* Frame as it would be if input_items were one list shared by all calls.
Frame_Shared(r) == 1

\* input_items is a local of the call (line 102): a step of run r reads and
\* extends the list of its own frame.
Frame(r) == r

\* What the transport answers a concurrent run.
RunToolOutputs ==
    { RoutineOutput,
      <<Call("create_incident", ArgStr(TxtArgsCreate)),
        Call("add_note", ArgStr(TxtArgsNote))>> }

RunAnswerOutputs == { <<Msg(PartsContent(<<OutText(<<TxtVerdict>>)>>))>> }

RunBodies == {JDict([output |-> JList(o)]) : o \in RunToolOutputs \cup RunAnswerOutputs}

ConcInit ==
    /\ api_key = "sk-test"
    /\ pc = "start"
    /\ step = 0
    /\ n_calls = 0
    /\ n_dispatched = 0
    /\ payload = NoPayload
    /\ response = NoneVal
    /\ input_items = <<>>
    /\ tool_calls = <<>>
    /\ result = NoneVal
    /\ exc = NoExc
    /\ incidents = <<>>
    /\ notes = <<>>
    /\ kb = seed_rows
    /\ clock = 0
    /\ varied = 0
    /\ runs = [r \in Runs |-> NewFrame]
    /\ last = <<>>
    /\ seeders = <<>>
    /\ _QUEUE = <<>>
    /\ handed = <<>>

\* The frames after a step of run r that leaves its own frame as own and the
\* conversation state it works on as items.
Frames(r, own, items) ==
    [[runs EXCEPT ![r] = own] EXCEPT ![Frame(r)].input_items = items]

\* Lines 98-105 in run r.
RunStart(r) ==
    /\ runs[r].pc = "start"
    /\ runs' = Frames(r, [runs[r] EXCEPT !.pc = "loop"], InitialItems(AlertOf(r)))
    /\ UNCHANGED <<run_vars, store_vars, last, seeders, approval_vars>>

\* Line 140 in run r.
RunExhausted(r) ==
    /\ runs[r].pc = "loop"
    /\ runs[r].step = MaxSteps
    /\ runs' = [runs EXCEPT ![r].pc = "done", ![r].result = Failure("openai_max_steps")]
    /\ UNCHANGED <<run_vars, store_vars, last, seeders, approval_vars>>

\* Line 108 in run r, when _openai_response raises.
RunTransportRaises(r) ==
    /\ runs[r].pc = "loop"
    /\ runs[r].step < MaxSteps
    /\ \E e \in TransportErrors :
          runs' = [runs EXCEPT ![r].pc = "raised",
                               ![r].exc = [type |-> e, at |-> "transport"],
                               ![r].step = @ + 1,
                               ![r].n_calls = @ + 1,
                               ![r].sent = runs[Frame(r)].input_items]
    /\ UNCHANGED <<run_vars, store_vars, last, seeders, approval_vars>>

\* The frame of run r after lines 108-138 on a body, given what Handle makes
\* of the body.
Handled(r, fresh, h) ==
    [runs[r] EXCEPT !.pc = h.pc, !.exc = h.exc, !.result = h.result,
                    !.tool_calls = h.tool_calls,
                    !.step = @ + 1, !.n_calls = @ + 1,
                    !.sent = runs[Frame(r)].input_items,
                    !.varied = IF fresh THEN @ + 1 ELSE @]

\* Lines 108-138 in run r: one invocation of the transport that returns.
RunTransportResponds(r) ==
    /\ runs[r].pc = "loop"
    /\ runs[r].step < MaxSteps
    /\ \E b \in RunBodies :
          /\ (OutputOf(b).items \notin RunAnswerOutputs \cup {RoutineOutput})
                => runs[r].varied < MaxRunVaried
          /\ runs' = Frames(r,
                   Handled(r, OutputOf(b).items \notin RunAnswerOutputs \cup {RoutineOutput},
                           HandleOn(JDict([output |->
                                       JList(StampWith(RunPrefix(r), OutputOf(b).items,
                                                       runs[r].n_dispatched))]),
                                    runs[Frame(r)].input_items)),
                   HandleOn(JDict([output |->
                               JList(StampWith(RunPrefix(r), OutputOf(b).items,
                                               runs[r].n_dispatched))]),
                            runs[Frame(r)].input_items).input_items)
    /\ UNCHANGED <<run_vars, store_vars, last, seeders, approval_vars>>

\* Lines 121-129 in run r on the outcome of the call.
RunSettle(r, call, out) ==
    /\ incidents' = out.db.incidents
    /\ notes' = out.db.notes
    /\ kb' = out.db.kb
    /\ clock' = out.db.clock
    /\ runs' =
          IF out.exc # NONE
          THEN [runs EXCEPT ![r].pc = "raised",
                            ![r].exc = [type |-> out.exc, at |-> "dispatch"],
                            ![r].n_dispatched = @ + 1]
          ELSE Frames(r,
                      [runs[r] EXCEPT !.tool_calls = Tail(@),
                                      !.pc = IF Tail(runs[r].tool_calls) = <<>>
                                             THEN "loop" ELSE "tools",
                                      !.n_dispatched = @ + 1],
                      Append(runs[Frame(r)].input_items, ToolResultTurn(call, out.result)))

\* Lines 117-129 in run r: resolve the next tool call of the response.
RunDispatch(r) ==
    /\ runs[r].pc = "tools"
    /\ runs[r].tool_calls # <<>>
    /\ \E present \in FixtureStates :
          RunSettle(r, Head(runs[r].tool_calls),
                    Resolve(Head(runs[r].tool_calls), Db, present))
    /\ UNCHANGED <<run_vars, last, seeders, approval_vars>>

ConcNext ==
    \/ \E r \in Runs : RunStart(r)
    \/ \E r \in Runs : RunExhausted(r)
    \/ \E r \in Runs : RunTransportRaises(r)
    \/ \E r \in Runs : RunTransportResponds(r)
    \/ \E r \in Runs : RunDispatch(r)

ConcSpec == ConcInit /\ [][ConcNext]_vars

(***************************************************************************)
(* The tools called directly, in any order and any number of times, as     *)
(* the runs of any number of alerts call them through dispatch_tool.       *)
(***************************************************************************)
MaxIncidents == 2
MaxNotes == 3

\* Alerts as a model may write them: fields of any JSON type, present or not.
Alerts ==
    { JDict(ScenarioAlert),
      JDict([incident_type |-> JStr("login_outage"), service |-> JStr("auth"),
             signal |-> JStr("availability_drop"), start_time |-> JStr("T1"),
             impact |-> JStr("logins fail"), region |-> JStr("eu")]),
      JDict([incident_type |-> JStr("latency_regression"), service |-> JStr("checkout"),
             signal |-> JStr("p95_latency_spike"), timestamp |-> JStr("T2"),
             short_summary |-> JStr("slow")]),
      JDict([incident_type |-> JStr("payments_failing"), service |-> JStr("auth"),
             signal |-> JStr("availability_drop"), impact |-> JStr("cards declined")]),
      JDict([incident_type |-> JStr("disk_full"), service |-> JStr("db"),
             signal |-> JStr("p95_latency_spike"), start_time |-> JStr("T3"),
             impact |-> JStr("writes fail")]),
      JDict([incident_type |-> JStr("login_outage"), service |-> JStr("auth"),
             signal |-> JStr("weird"), start_time |-> JStr("T4"),
             impact |-> JStr("logins fail")]),
      JDict([incident_type |-> JNum(7), signal |-> NoneVal, service |-> JStr("")]),
      JDict(EmptyDict),
      JDict([incident_type |-> JList(<<"payments_failing">>), service |-> JStr("checkout")]),
      JDict([incident_type |-> JStr("disk_full"), service |-> JNum(42),
             start_time |-> JStr("T5")]),
      JDict([signal |-> JDict(EmptyDict)]),
      JStr("checkout is down") }

IncidentIds == {NewIncidentId(1), NewIncidentId(2), "INC-9"}

NoteTypes == {"comms"}

Searches ==
    { [query |-> <<"gateway", " ", "timeout">>, k |-> 2],
      [query |-> <<"gateway">>, incident_type |-> <<"login_outage">>],
      [query |-> <<"-">>],
      [query |-> <<"gateway", "-", "timeout">>],
      [query |-> <<"zebra">>, incident_type |-> <<"payments_failing">>, k |-> 10],
      [query |-> <<"gateway">>, service |-> <<"checkout", "-", "api">>, k |-> 10],
      [query |-> <<"sev1", " ", "incident">>],
      [query |-> <<"001">>, k |-> -1],
      [query |-> <<"timeout">>, k |-> 0],
      [query |-> <<"policy">>, k |-> 50] }

\* Requests GET /kb/search?q=...&k=...&incident_type=...&service=...
Requests ==
    { [query |-> <<"SEV1", " ", "incident">>, k |-> 3],
      [query |-> <<"Gateway">>, service |-> <<"checkout", "-", "api">>, k |-> 10],
      [query |-> <<"rubric">>, incident_type |-> <<"login_outage">>, k |-> 1],
      [query |-> <<"gateway", "-", "timeout">>, k |-> 3],
      [query |-> <<"gateway">>, k |-> 0] }

NoCall == [tool |-> NONE, args |-> EmptyDict, exc |-> NONE, result |-> EmptyDict]

ToolInit ==
    /\ api_key = "sk-test"
    /\ pc = "start"
    /\ step = 0
    /\ n_calls = 0
    /\ n_dispatched = 0
    /\ payload = NoPayload
    /\ response = NoneVal
    /\ input_items = <<>>
    /\ tool_calls = <<>>
    /\ result = NoneVal
    /\ exc = NoExc
    /\ incidents = <<>>
    /\ notes = <<>>
    /\ kb = seed_rows
    /\ clock = 0
    /\ varied = 0
    /\ runs = <<>>
    /\ last = NoCall
    /\ seeders = <<>>
    /\ _QUEUE = <<>>
    /\ handed = <<>>

\* One call dispatch_tool(name, args) and the outcome it had.
Called(name, args, out) ==
    /\ incidents' = out.db.incidents
    /\ notes' = out.db.notes
    /\ kb' = out.db.kb
    /\ clock' = out.db.clock
    /\ last' = [tool |-> name, args |-> args, exc |-> out.exc, result |-> out.result]
    /\ UNCHANGED <<run_vars, runs, seeders, approval_vars>>

CreateIncident ==
    /\ Len(incidents) < MaxIncidents
    /\ \E alert \in Alerts :
          Called("create_incident", [alert |-> alert],
                 dispatch_tool("create_incident", JDict([alert |-> alert]), Db, {}))

AssignOwners ==
    \E id \in IncidentIds :
        Called("assign_owners", [incident_id |-> id],
               dispatch_tool("assign_owners", JDict([incident_id |-> id]), Db, {}))

GetEvidence ==
    \E id \in IncidentIds, present \in FixtureStates :
        Called("get_evidence", [incident_id |-> id],
               dispatch_tool("get_evidence", JDict([incident_id |-> id]), Db, present))

SearchKb ==
    \E a \in Searches :
        Called("kb_search", a, dispatch_tool("kb_search", JDict(a), Db, {}))

HttpSearchKb ==
    \E a \in Requests :
        Called("search_kb", a,
               search_kb(a.query, a.k, GetText(a, "incident_type"), GetText(a, "service"), Db))

AddNote ==
    /\ Len(notes) < MaxNotes
    /\ \E id \in IncidentIds, t \in NoteTypes :
          Called("add_note", [incident_id |-> id, note_type |-> t],
                 dispatch_tool("add_note", JDict([incident_id |-> id, note_type |-> t]),
                               Db, {}))

ToolNext ==
    \/ CreateIncident
    \/ AssignOwners
    \/ GetEvidence
    \/ SearchKb
    \/ HttpSearchKb
    \/ AddNote

ToolSpec == ToolInit /\ [][ToolNext]_vars

(***************************************************************************)
(* Seeding of the Knowledge Base Index (app/kb.py, seed_kb_if_empty).      *)
(* A seed run works on a connection of its own: it reads the committed     *)
(* rows and its own pending rows, its first INSERT takes the write lock of *)
(* the database file, and the one commit at the end stores the pending     *)
(* rows and frees the lock.  One action is one SQL statement, since other  *)
(* connections act between the statements of a run.  An INSERT that finds  *)
(* the lock taken waits for it.  The table is an FTS5 virtual table: it    *)
(* has no key, so nothing refuses a second row with a chunk_id it holds.   *)
(***************************************************************************)
NumSeeders == 2
MaxSeedRuns == 3

Seeders == 1..NumSeeders

CustomRow ==
    [chunk_id |-> "kb-custom-001", title |-> "Runbook: Cache eviction",
     tags |-> "cache", source |-> "runbooks/cache.md", terms |-> {"cache", "gateway"}]

Revised(row) == [row EXCEPT !.title = "Revised", !.terms = @ \cup {"revised"}]

\* The rows the index may hold when the service starts: none, some of the
\* canonical rows, rows revised since they were seeded, rows of other origin.
IndexStates ==
    { <<>>,
      <<seed_rows[1]>>,
      <<Revised(seed_rows[2])>>,
      <<seed_rows[3], CustomRow>>,
      <<CustomRow, Revised(seed_rows[1]), seed_rows[3]>>,
      <<seed_rows[2], seed_rows[1]>>,
      seed_rows,
      <<Revised(seed_rows[1]), Revised(seed_rows[2]), Revised(seed_rows[3])>> }

SeedQueries == { [query |-> <<"gateway">>] }

NoSeeder == [pc |-> "idle", i |-> 0, pending |-> <<>>]

SeedInit ==
    /\ api_key = "sk-test"
    /\ pc = "start"
    /\ step = 0
    /\ n_calls = 0
    /\ n_dispatched = 0
    /\ payload = NoPayload
    /\ response = NoneVal
    /\ input_items = <<>>
    /\ tool_calls = <<>>
    /\ result = NoneVal
    /\ exc = NoExc
    /\ incidents = <<>>
    /\ notes = <<>>
    /\ kb \in IndexStates
    /\ clock = 0
    /\ varied = 0
    /\ runs = <<>>
    /\ last = NoCall
    /\ seeders = [lock |-> 0, started |-> 0, of |-> [r \in Seeders |-> NoSeeder]]
    /\ _QUEUE = <<>>
    /\ handed = <<>>

\* The check as it would be if it never found a row.
RowExists_Never(chunk_id, rows) == FALSE

\* Lines 89-92: SELECT 1 FROM kb_chunks WHERE chunk_id = ? LIMIT 1.
RowExists(chunk_id, rows) == \E i \in 1..Len(rows) : rows[i].chunk_id = chunk_id

\* The rows the connection of seed run r reads.
Visible(r) == kb \o seeders.of[r].pending

Seeding(r) == seeders.of[r].pc \in {"check", "insert", "commit"}

\* The frame of a run that is done with row i of seed_rows.
NextRow(frame) ==
    IF frame.i = Len(seed_rows) THEN [frame EXCEPT !.pc = "commit"]
    ELSE [frame EXCEPT !.pc = "check", !.i = @ + 1]

\* seed_kb_if_empty() is called (on_startup).
SeedStart(r) ==
    /\ ~Seeding(r)
    /\ seeders.started < MaxSeedRuns
    /\ seeders' = [seeders EXCEPT !.started = @ + 1,
                                  !.of[r] = [pc |-> "check", i |-> 1, pending |-> <<>>]]
    /\ UNCHANGED <<run_vars, store_vars, runs, last, approval_vars>>

\* The call when startups follow one another: no other run is under way.
SeqStart(r) == (\A o \in Seeders : ~Seeding(o)) /\ SeedStart(r)

SeedCheck(r) ==
    /\ seeders.of[r].pc = "check"
    /\ seeders' = [seeders EXCEPT !.of[r] =
                      IF RowExists(seed_rows[seeders.of[r].i].chunk_id, Visible(r))
                      THEN NextRow(@) ELSE [@ EXCEPT !.pc = "insert"]]
    /\ UNCHANGED <<run_vars, store_vars, runs, last, approval_vars>>

SeedInsert(r) ==
    /\ seeders.of[r].pc = "insert"
    /\ seeders.lock \in {0, r}
    /\ seeders' = [seeders EXCEPT !.lock = r,
                                  !.of[r] = NextRow([@ EXCEPT !.pending =
                                                Append(@, seed_rows[seeders.of[r].i])])]
    /\ UNCHANGED <<run_vars, store_vars, runs, last, approval_vars>>

SeedCommit(r) ==
    /\ seeders.of[r].pc = "commit"
    /\ kb' = kb \o seeders.of[r].pending
    /\ seeders' = [seeders EXCEPT !.lock = IF @ = r THEN 0 ELSE @,
                                  !.of[r] = [pc |-> "done", i |-> 0, pending |-> <<>>]]
    /\ UNCHANGED <<run_vars, incidents, notes, clock, runs, last, approval_vars>>

\* A query of the index while seed runs are under way: it reads the
\* committed rows.
SeedSearch ==
    \E a \in SeedQueries :
        Called("kb_search", a, dispatch_tool("kb_search", JDict(a), Db, {}))

SeedNext ==
    \/ \E r \in Seeders : SeqStart(r)
    \/ \E r \in Seeders : SeedCheck(r)
    \/ \E r \in Seeders : SeedInsert(r)
    \/ \E r \in Seeders : SeedCommit(r)
    \/ SeedSearch

SeedSpec == SeedInit /\ [][SeedNext]_vars

RaceNext ==
    \/ \E r \in Seeders : SeedStart(r)
    \/ \E r \in Seeders : SeedCheck(r)
    \/ \E r \in Seeders : SeedInsert(r)
    \/ \E r \in Seeders : SeedCommit(r)
    \/ SeedSearch

RaceSpec == SeedInit /\ [][RaceNext]_vars

(***************************************************************************)
(* Approval queue (app/approvals_store.py, app/approvals_api.py).  The two *)
(* handlers are coroutines that never await: each runs to its end on the   *)
(* event loop before another request is served, so a call is one action.   *)
(***************************************************************************)
MaxApprovals == 3

\* Bodies of POST /approvals.
Payloads ==
    { [alert |-> JDict(ScenarioAlert), channel_id |-> "C1", thread_ts |-> "1.0"],
      [alert |-> JDict([ScenarioAlert EXCEPT !.service = JStr("auth")]),
       channel_id |-> "C1"],
      EmptyDict }

\* str(uuid.uuid4()) for item number n: an id no other item has.
NewApprovalId(n) == "APR-" \o ToString(n)

\* int(time.time()) at an enqueue: the reading of the enqueue before it, or later.
Readings(queue) ==
    IF queue = <<>> THEN {1}
    ELSE {queue[Len(queue)].created_at, queue[Len(queue)].created_at + 1}

\* Lines 7-17.
enqueue(alert, channel_id, thread_ts, queue, now) ==
    [item |-> [id |-> NewApprovalId(Len(queue) + 1), created_at |-> now,
               status |-> "pending", alert |-> alert, channel_id |-> channel_id,
               thread_ts |-> thread_ts],
     queue |-> Append(queue,
                      [id |-> NewApprovalId(Len(queue) + 1), created_at |-> now,
                       status |-> "pending", alert |-> alert,
                       channel_id |-> channel_id, thread_ts |-> thread_ts])]

\* Lines 20-21: the index of the first item from i on whose status is
\* pending, 0 when there is none.
RECURSIVE Scan(_, _)
Scan(queue, i) ==
    IF i > Len(queue) THEN 0
    ELSE IF queue[i].status = "pending" THEN i
    ELSE Scan(queue, i + 1)

\* Lines 22-24 for the item the loop stopped at.
Take(queue, i) ==
    IF i = 0 THEN [item |-> NoneVal, queue |-> queue]
    ELSE [item |-> [queue[i] EXCEPT !.status = "taken"],
          queue |-> [queue EXCEPT ![i].status = "taken"]]

\* take_next as it would be if the item were returned with its status left.
take_next_Unmarked(queue) ==
    IF Scan(queue, 1) = 0 THEN [item |-> NoneVal, queue |-> queue]
    ELSE [item |-> queue[Scan(queue, 1)], queue |-> queue]

\* take_next as it would be if the list were walked from its end.
take_next_Latest(queue) ==
    Take(queue,
         IF \E i \in 1..Len(queue) : queue[i].status = "pending"
         THEN CHOOSE i \in 1..Len(queue) :
                 /\ queue[i].status = "pending"
                 /\ \A j \in (i + 1)..Len(queue) : queue[j].status # "pending"
         ELSE 0)

\* Lines 19-24.
take_next(queue) == Take(queue, Scan(queue, 1))

ApprovalInit ==
    /\ api_key = "sk-test"
    /\ pc = "start"
    /\ step = 0
    /\ n_calls = 0
    /\ n_dispatched = 0
    /\ payload = NoPayload
    /\ response = NoneVal
    /\ input_items = <<>>
    /\ tool_calls = <<>>
    /\ result = NoneVal
    /\ exc = NoExc
    /\ incidents = <<>>
    /\ notes = <<>>
    /\ kb = seed_rows
    /\ clock = 0
    /\ varied = 0
    /\ runs = <<>>
    /\ last = NoCall
    /\ seeders = <<>>
    /\ _QUEUE = <<>>
    /\ handed = <<>>

\* POST /approvals answered with the item enqueue returned.
Approved(body, out) ==
    /\ _QUEUE' = out.queue
    /\ last' = [tool |-> "create_approval", args |-> body, exc |-> NONE,
                result |-> [ok |-> TRUE, approval_id |-> out.item.id]]
    /\ UNCHANGED <<run_vars, store_vars, runs, seeders, handed>>

create_approval ==
    /\ Len(_QUEUE) < MaxApprovals
    /\ \E body \in Payloads, now \in Readings(_QUEUE) :
          Approved(body,
                   enqueue(IF "alert" \in DOMAIN body THEN body.alert ELSE JDict(EmptyDict),
                           Get(body, "channel_id"), Get(body, "thread_ts"), _QUEUE, now))

\* GET /approvals/next answered with what take_next returned.
Answered(out) ==
    /\ _QUEUE' = out.queue
    /\ handed' = IF out.item = NoneVal THEN handed ELSE Append(handed, out.item.id)
    /\ last' = [tool |-> "get_next_approval", args |-> EmptyDict, exc |-> NONE,
                result |-> IF out.item = NoneVal
                           THEN [ok |-> TRUE, has_item |-> FALSE]
                           ELSE [ok |-> TRUE, has_item |-> TRUE, item |-> out.item]]
    /\ UNCHANGED <<run_vars, store_vars, runs, seeders>>

get_next_approval == Answered(take_next(_QUEUE))

ApprovalNext ==
    \/ create_approval
    \/ get_next_approval

ApprovalSpec == ApprovalInit /\ [][ApprovalNext]_vars

(***************************************************************************)
(* Properties.                                                             *)
(***************************************************************************)
Ended == pc \in {"done", "raised"}

IsCall(t) == Get(t, "type") = "function_call"
IsResult(t) == Get(t, "type") = "function_call_output"

\* The response of the latest invocation is a list of turns without a tool
\* call: the run takes it as the final answer.
AnswerResponse ==
    /\ response.kind = "dict"
    /\ OutputOf(response).kind = "list"
    /\ AllTurns(OutputOf(response).items)
    /\ ToolCallsOf(OutputOf(response).items) = <<>>

LastAnswerText == AnswerText(response.val, OutputOf(response).items)

IsFailureDescriptor(v) ==
    /\ v.kind = "dict"
    /\ {"status", "reason"} \subseteq DOMAIN v.val
    /\ DOMAIN v.val \subseteq {"status", "reason", "raw"}
    /\ v.val.status = "failed"

WellFormedVerdict(v) ==
    /\ v.kind = "dict"
    /\ DOMAIN v.val = VerdictFields
    /\ v.val.status \in VerdictStatuses
    /\ DOMAIN v.val.evidence = EvidenceFields

\* C1: a run invokes the transport at most 6 times, and a run whose 6
\* responses all request tool calls returns {status: failed, reason:
\* openai_max_steps}.
C1_BudgetThenMaxSteps ==
    /\ n_calls <= MaxSteps
    /\ (Ended /\ n_calls = MaxSteps /\ HasToolCalls(response))
          => (pc = "done" /\ result = Failure("openai_max_steps"))

\* Every function_call turn of items has exactly one function_call_output
\* turn with its call_id, placed after it, and every function_call_output
\* turn answers exactly one earlier function_call turn.
Correlated(items) ==
    /\ \A i \in DOMAIN items :
          IsCall(items[i]) =>
             /\ Cardinality({j \in DOMAIN items :
                               IsResult(items[j]) /\ items[j].call_id = items[i].call_id}) = 1
             /\ \A j \in DOMAIN items :
                   (IsResult(items[j]) /\ items[j].call_id = items[i].call_id) => j > i
    /\ \A j \in DOMAIN items :
          IsResult(items[j]) =>
             Cardinality({i \in 1..(j - 1) :
                            IsCall(items[i]) /\ items[i].call_id = items[j].call_id}) = 1

C3_FailuresAreReturned == ~(pc = "raised" /\ exc.at \in {"transport", "response", "output"})

\* C4: no tool-call request makes the run end with an exception.
C4_NoCrashOnToolCall == ~(pc = "raised" /\ exc.at = "dispatch")

\* Names that are none of the five capabilities, and argument values of
\* every shape _parse_tool_args can produce.
NotCapabilities == {"restart_service", "Create_Incident", "kb_search ", NONE, ""}

ArgShapes ==
    {JDict(EmptyDict), JDict([incident_id |-> "INC-1"]),
     JDict([alert |-> JDict(ScenarioAlert)]), JList(<<1>>)}

\* C5: in every state of the repository, dispatch_tool on a name that is no
\* capability returns {ok: false, reason: unknown tool '<name>'} for any
\* arguments, raises nothing and leaves incidents, notes and the knowledge
\* base as they are.
C5_UnknownToolIsError ==
    \A name \in NotCapabilities, args \in ArgShapes, present \in FixtureStates :
        dispatch_tool(name, args, Db, present) = Returns(UnknownTool(name), Db)

\* C5 witness: a run has dispatched an unknown tool name against a repository
\* that holds an incident and a note, and went on with the error as the result.
C5_Witness ==
    /\ incidents # <<>>
    /\ notes # <<>>
    /\ \E i \in DOMAIN input_items :
          /\ IsResult(input_items[i])
          /\ input_items[i].output = JsonDumps(UnknownTool("restart_service"))

\* The next tool call looks up an incident that the repository does not hold.
LooksUpMissingIncident(call) ==
    /\ Get(call, "name") \in {"assign_owners", "get_evidence", "add_note"}
    /\ _parse_tool_args(GetVal(call, "arguments")).kind = "dict"
    /\ Subscripted(call.name) \subseteq DOMAIN _parse_tool_args(GetVal(call, "arguments")).val
    /\ FindIncident(incidents,
                    _parse_tool_args(GetVal(call, "arguments")).val.incident_id) = <<>>

\* The next tool call asks for the evidence of an incident the repository holds.
AsksEvidence(call) ==
    /\ Get(call, "name") = "get_evidence"
    /\ _parse_tool_args(GetVal(call, "arguments")).kind = "dict"
    /\ "incident_id" \in DOMAIN _parse_tool_args(GetVal(call, "arguments")).val
    /\ FindIncident(incidents,
                    _parse_tool_args(GetVal(call, "arguments")).val.incident_id) # <<>>

MissingFixture(r) ==
    /\ DOMAIN r = {"ok", "reason"}
    /\ r.ok = FALSE
    /\ r.reason \in {"Missing fixture: " \o t \o "/" \o n \o ".json" :
                        t \in allowed_incident_types, n \in {"logs", "metrics", "changes", "runbook"}}

\* The step appended exactly one turn, the result of call.
AppendedResultOf(call) ==
    /\ Len(input_items') = Len(input_items) + 1
    /\ SubSeq(input_items', 1, Len(input_items)) = input_items
    /\ IsResult(input_items'[Len(input_items')])
    /\ input_items'[Len(input_items')].call_id = call.call_id

\* The step did not end the run; after the last call of the response the
\* loop is back at its head.
RunGoesOn ==
    /\ pc' = IF Tail(tool_calls) = <<>> THEN "loop" ELSE "tools"
    /\ exc' = NoExc
    /\ result' = NoneVal
    /\ tool_calls' = Tail(tool_calls)

\* C6: a tool-level error (incident not found, missing fixture) is appended
\* as the tool-result turn of its call and does not end the run: the
\* remaining calls of the response are resolved and the loop goes on to its
\* next iteration.
C6_ToolErrorFedBack ==
    [][ (pc = "tools" /\ tool_calls # <<>>) =>
          /\ LooksUpMissingIncident(Head(tool_calls)) =>
                /\ AppendedResultOf(Head(tool_calls))
                /\ input_items'[Len(input_items')].output = JsonDumps(NotFound)
                /\ RunGoesOn
          /\ AsksEvidence(Head(tool_calls)) =>
                /\ AppendedResultOf(Head(tool_calls))
                /\ \/ MissingFixture(input_items'[Len(input_items')].output.json)
                   \/ "evidence_bundle" \in DOMAIN input_items'[Len(input_items')].output.json
                /\ RunGoesOn
      ]_vars

\* C6 witness: the transport was invoked again with a conversation that
\* holds a not-found result and a missing-fixture result.
C6_Witness ==
    /\ n_calls >= 2
    /\ \E i \in DOMAIN payload.input :
          IsResult(payload.input[i]) /\ payload.input[i].output = JsonDumps(NotFound)
    /\ \E i \in DOMAIN payload.input :
          IsResult(payload.input[i]) /\ MissingFixture(payload.input[i].output.json)

\* C7: without a credential the run returns {status: failed, reason:
\* openai_not_configured}; the transport is never invoked, no tool is
\* dispatched and the repository stays as it was.
C7_NotConfigured ==
    (api_key \in {NONE, ""} /\ pc # "start") =>
        /\ pc = "done"
        /\ result = Failure("openai_not_configured")
        /\ n_calls = 0
        /\ n_dispatched = 0
        /\ incidents = <<>>
        /\ notes = <<>>

\* C7 witness: a run that ended with an empty credential.
C7_Witness == api_key = "" /\ pc = "done"

\* C8: a returned result that is no failure descriptor is a well-formed
\* verdict.
C8_ResultIsVerdictOrFailure ==
    pc = "done" => (IsFailureDescriptor(result) \/ WellFormedVerdict(result))

\* C9: a response without tool calls whose textual answer is not empty and
\* is not JSON ends the run with {status: failed, reason: openai_non_json,
\* raw: <the textual answer>}.
C9_NonJsonKeepsRaw ==
    (AnswerResponse /\ LastAnswerText # <<>> /\ ~JsonLoadsText(LastAnswerText).ok) =>
        /\ pc = "done"
        /\ result = JDict([status |-> "failed", reason |-> "openai_non_json",
                           raw |-> LastAnswerText])

\* C9 witness: the answer " not json " was returned as raw "not json", after
\* at least one round of tool calls.
C9_Witness ==
    /\ pc = "done"
    /\ n_calls >= 2
    /\ AnswerResponse
    /\ OutputOf(response).items = <<Msg(StrContent(<<" ", TxtNotJson, " ">>))>>
    /\ result = JDict([status |-> "failed", reason |-> "openai_non_json",
                       raw |-> <<TxtNotJson>>])

\* C10: a response without tool calls whose textual answer is empty ends the
\* run with {status: failed, reason: openai_empty_output}, and the transport
\* is not invoked again.
C10_EmptyOutput ==
    (AnswerResponse /\ LastAnswerText = <<>>) =>
        /\ pc = "done"
        /\ result = Failure("openai_empty_output")
        /\ ~ENABLED (TransportRaises \/ TransportResponds)

\* C10 witness: a message of whitespace only ended the run with
\* openai_empty_output.
C10_Witness ==
    /\ pc = "done"
    /\ AnswerResponse
    /\ OutputOf(response).items = <<Msg(StrContent(<<" ">>))>>
    /\ result = Failure("openai_empty_output")

\* The output of the latest response is not a well-formed list of turns: it
\* is no list, or a list with an item that is no object.
MalformedOutput ==
    /\ response.kind = "dict"
    /\ \/ OutputOf(response).kind # "list"
       \/ ~AllTurns(OutputOf(response).items)

\* C11: a response whose output is not a well-formed list of turns ends the
\* run with {status: failed, reason: openai_bad_output}; the conversation
\* state is the one that was sent, and no tool call of the response is
\* taken up.
C11_BadOutputFailsFast ==
    MalformedOutput =>
        /\ pc = "done"
        /\ result = Failure("openai_bad_output")
        /\ input_items = payload.input
        /\ tool_calls = <<>>

\* Every transport call and every tool call made so far has returned: no
\* exception came out of _openai_response or dispatch_tool.
CallsReturned == exc.at \notin {"transport", "dispatch"}

\* A run that has not ended can take a step.
CanStep ==
    \/ pc = "start"
    \/ pc = "loop" /\ ENABLED (Exhausted \/ TransportRaises)
    \/ pc = "tools" /\ tool_calls # <<>>

\* Every step of a run brings it nearer its end: it leaves the start, ends
\* the run, begins another of the 6 iterations, or resolves one of the tool
\* calls still to resolve.
RunAdvances ==
    [][ \/ pc = "start" /\ pc' # "start"
        \/ ~Ended /\ Ended'
        \/ step' = step + 1 /\ step' <= MaxSteps
        \/ step' = step /\ Len(tool_calls') < Len(tool_calls) ]_vars

\* C12: a run ends, and in one outcome: while it has not ended it can take a
\* step, it begins at most 6 iterations, once ended it takes no further
\* step, and when every transport call and tool call returned it ends by
\* returning a value (a final JSON answer, an error result or
\* openai_max_steps).
C12_EndsInOneOutcome ==
    /\ step <= MaxSteps
    /\ ~Ended => CanStep
    /\ Ended => ~ENABLED Next
    /\ (Ended /\ CallsReturned) => (pc = "done" /\ exc = NoExc /\ result # NoneVal)

\* Turn t was produced for run r: the initial turns of r's alert, an item of
\* a response of the transport to r, or the result of a tool call of r.
OwnTurn(r, t) ==
    IF Get(t, "type") \in {"function_call", "function_call_output"}
    THEN \E n \in 1..(runs[r].n_dispatched + Len(runs[r].tool_calls)) :
            t.call_id = RunPrefix(r) \o ToString(n)
    ELSE IF Get(t, "role") = "user"
    THEN t = InitialItems(AlertOf(r))[2]
    ELSE Get(t, "role") \in {"system", "assistant"}

CreatedFromAlert ==
    /\ last.tool = "create_incident"
    /\ last.args.alert.kind = "dict"

LastAlert == last.args.alert.val

\* The field of the alert is not one of the recognized values, or is missing.
Unrecognized(alert, field, recognized) ==
    ~(GetVal(alert, field).kind = "str" /\ GetVal(alert, field).str \in recognized)

\* The Incident row the latest create_incident persisted.
LastRow == FindIncident(incidents, last.result.incident_id)[1]

\* C14: create_incident on an alert whose incident type or signal is
\* unrecognized or missing does not fail: it persists an incident with
\* payments_failing for an unrecognized type and error_rate_spike for an
\* unrecognized signal, each substituted on its own and a recognized value
\* kept, with 'unknown' for a missing service and 'unknown impact' for a
\* missing impact.
C14_FallbacksInsteadOfFailure ==
    ( /\ CreatedFromAlert
      /\ \/ Unrecognized(LastAlert, "incident_type", allowed_incident_types)
         \/ Unrecognized(LastAlert, "signal", allowed_signals) )
    => /\ last.exc = NONE
       /\ FindIncident(incidents, last.result.incident_id) # <<>>
       /\ LastRow.incident_type =
             IF Unrecognized(LastAlert, "incident_type", allowed_incident_types)
             THEN "payments_failing" ELSE LastAlert.incident_type.str
       /\ LastRow.signal =
             IF Unrecognized(LastAlert, "signal", allowed_signals)
             THEN "error_rate_spike" ELSE LastAlert.signal.str
       /\ GetVal(LastAlert, "service").kind = "none" => LastRow.service = "unknown"
       /\ ( /\ GetVal(LastAlert, "impact").kind = "none"
            /\ GetVal(LastAlert, "short_summary").kind = "none" )
          => LastRow.impact = "unknown impact"

\* Incident types, services, signals and regions to classify: the recognized
\* values and others.
TypesTried == allowed_incident_types \cup {"disk_full", "", NONE}

FieldsTried == {"checkout", "error_rate_spike", "availability_drop", "eu", NONE}

\* C15: severity is a function of the incident type alone: payments_failing
\* and login_outage give SEV1, latency_regression gives SEV2, every other
\* type SEV3, whatever the service, signal and region; and two persisted
\* incidents of one type have one severity, whatever was called in between.
C15_SeverityByTypeAlone ==
    /\ \A t \in TypesTried, svc \in FieldsTried, sig \in FieldsTried, reg \in FieldsTried :
          classify_severity([incident_type |-> t, service |-> svc, signal |-> sig,
                             region |-> reg])
            = CASE t \in {"payments_failing", "login_outage"} -> "SEV1"
                [] t = "latency_regression" -> "SEV2"
                [] OTHER -> "SEV3"
    /\ \A i \in DOMAIN incidents, j \in DOMAIN incidents :
          incidents[i].incident_type = incidents[j].incident_type
             => incidents[i].severity = incidents[j].severity
    /\ \A i \in DOMAIN incidents :
          incidents[i].severity =
             IF incidents[i].incident_type = "latency_regression" THEN "SEV2" ELSE "SEV1"

\* C15 witness: two incidents of one type, of different services and
\* signals, created with a note added in between.
C15_Witness ==
    /\ Len(incidents) = 2
    /\ incidents[1].incident_type = incidents[2].incident_type
    /\ incidents[1].service # incidents[2].service
    /\ incidents[1].signal # incidents[2].signal
    /\ notes # <<>>
    /\ notes[1].created_at = NowIso(1)

\* A list of assignees with one Primary and one Secondary entry, Primary
\* first, each of a team that is named.
OnePrimaryOneSecondary(assignees) ==
    /\ Len(assignees) = 2
    /\ Cardinality({i \in DOMAIN assignees : assignees[i].role = "Primary"}) = 1
    /\ Cardinality({i \in DOMAIN assignees : assignees[i].role = "Secondary"}) = 1
    /\ assignees[1].role = "Primary"
    /\ \A i \in DOMAIN assignees : assignees[i].team # ""

\* The latest call was assign_owners and it found the incident.
OwnersReturned ==
    /\ last.tool = "assign_owners"
    /\ last.exc = NONE
    /\ "assignees" \in DOMAIN last.result

\* C16: for every incident type the default assignees are one Primary and
\* one Secondary entry, Primary first, each with a non-empty team; so are
\* the assignees persisted with every incident and those assign_owners
\* returns.
C16_OnePrimaryOneSecondary ==
    /\ \A t \in TypesTried : OnePrimaryOneSecondary(default_assignees([incident_type |-> t]))
    /\ \A i \in DOMAIN incidents : OnePrimaryOneSecondary(incidents[i].assignees_json.json)
    /\ OwnersReturned => OnePrimaryOneSecondary(last.result.assignees)

\* C16 witness: assign_owners returned the assignees of a login_outage
\* incident, the second of two incidents.
C16_Witness ==
    /\ OwnersReturned
    /\ last.args.incident_id = NewIncidentId(2)
    /\ incidents[2].incident_type = "login_outage"
    /\ last.result.assignees[2].team = "Identity/Auth Team"

\* The AlertPayload fields the policies read, for an incident type.
OfType(t) == [incident_type |-> t]

\* C17: create_incident returns the severity the severity policy gives for
\* the normalized type of the alert and persists the assignees the
\* default-assignee policy gives for it, which a later assign_owners for the
\* new id returns; for payments_failing these are SEV1 and [(Backend Oncall,
\* Primary), (Payments Team, Secondary)].
C17_CreateFollowsPolicies ==
    /\ (CreatedFromAlert /\ last.exc = NONE) =>
          /\ last.result.severity = classify_severity(OfType(NormalType(LastAlert)))
          /\ LastRow.severity = last.result.severity
          /\ assign_owners_tool(last.result.incident_id, Db).result =
                [incident_id |-> last.result.incident_id,
                 assignees |-> default_assignees(OfType(NormalType(LastAlert)))]
          /\ NormalType(LastAlert) = "payments_failing" =>
                /\ last.result.severity = "SEV1"
                /\ LastRow.assignees_json =
                      JsonDumps(<<[team |-> "Backend Oncall", role |-> "Primary"],
                                  [team |-> "Payments Team", role |-> "Secondary"]>>)
    /\ OwnersReturned =>
          last.result.assignees =
             default_assignees(OfType(
                 FindIncident(incidents, last.args.incident_id)[1].incident_type))

\* C17 witness: after a login_outage incident, create_incident on the
\* payments_failing alert of the scenario returned SEV1, and assign_owners
\* for the new id returned Backend Oncall and Payments Team.
C17_Witness ==
    /\ OwnersReturned
    /\ last.args.incident_id = NewIncidentId(2)
    /\ incidents[1].incident_type = "login_outage"
    /\ incidents[2].incident_type = "payments_failing"
    /\ incidents[2].service = "checkout"
    /\ incidents[2].severity = "SEV1"
    /\ last.result.assignees[2] = [team |-> "Payments Team", role |-> "Secondary"]

\* The notes of an incident, counted over the IncidentNote rows.
NotesOf(rows, id) == Cardinality({i \in DOMAIN rows : rows[i].incident_id = id})

\* The step was a successful add_note on incident id.
NoteAdded(id) ==
    /\ last'.tool = "add_note"
    /\ last'.args.incident_id = id
    /\ last'.exc = NONE
    /\ "note_id" \in DOMAIN last'.result

\* C18: every successful add_note on an incident raises the note count of
\* that incident by exactly one and returns the raised count, which includes
\* the note just appended; it leaves the count of every other incident as it
\* is, and so does every other call; an id without incident has no notes.
\* So after N successful add_note on one incident its count is N, however the
\* calls interleave with notes on other incidents, and no count decreases.
C18_NoteCountIsAdds ==
    [][ \A id \in IncidentIds :
          /\ NotesOf(notes', id) = NotesOf(notes, id) + (IF NoteAdded(id) THEN 1 ELSE 0)
          /\ NoteAdded(id) =>
                /\ last'.result.notes_count = NotesOf(notes', id)
                /\ notes'[Len(notes')].note_id = last'.result.note_id
                /\ notes'[Len(notes')].incident_id = id
          /\ FindIncident(incidents', id) = <<>> => NotesOf(notes', id) = 0
      ]_vars

\* C18 witness: two notes on the first incident with a note on the second
\* incident between them; the latest add_note returned the count 2.
C18_Witness ==
    /\ Len(notes) = 3
    /\ notes[1].incident_id = NewIncidentId(1)
    /\ notes[2].incident_id = NewIncidentId(2)
    /\ notes[3].incident_id = NewIncidentId(1)
    /\ last.tool = "add_note"
    /\ last.result.notes_count = 2

\* C19: add_note for an id that has no incident returns {ok: false, reason:
\* incident not found}, raises nothing and leaves the notes, and with them
\* the note count of every incident, as they are.
C19_NoteOnMissingIncident ==
    [][ ( /\ last'.tool = "add_note"
          /\ FindIncident(incidents, last'.args.incident_id) = <<>> )
        => /\ last'.exc = NONE
           /\ last'.result = NotFound
           /\ notes' = notes
           /\ incidents' = incidents
      ]_vars

\* C19 witness: add_note on an id without incident returned not found while
\* the repository holds incidents and notes.
C19_Witness ==
    /\ last.tool = "add_note"
    /\ last.args.incident_id = "INC-9"
    /\ last.result = NotFound
    /\ incidents # <<>>
    /\ notes # <<>>

\* C20: no call modifies or deletes an Incident row: every row stays where
\* it is with every field as it was; assign_owners, get_evidence, kb_search
\* and add_note leave the rows as they are, and create_incident adds at most
\* one row after them.
C20_IncidentsAreImmutable ==
    [][ /\ Len(incidents') >= Len(incidents)
        /\ Len(incidents') <= Len(incidents) + 1
        /\ SubSeq(incidents', 1, Len(incidents)) = incidents
        /\ last'.tool # "create_incident" => incidents' = incidents
      ]_vars

\* C20 witness: two incidents were created, notes were added, owners and
\* evidence were asked for, and the knowledge base was searched last.
C20_Witness ==
    /\ Len(incidents) = 2
    /\ Len(notes) >= 2
    /\ last.tool = "kb_search"
    /\ last.exc = NONE

CanonicalIds == {seed_rows[i].chunk_id : i \in 1..Len(seed_rows)}

\* The number of rows stored under chunk_id.
Stored(chunk_id, rows) ==
    Cardinality({i \in 1..Len(rows) : rows[i].chunk_id = chunk_id})

NoSeeding == \A r \in Seeders : ~Seeding(r)

\* C21: seed runs made one after another leave every row of the index as
\* it was, and once a run is over the index holds each canonical chunk id
\* exactly once.
C21_SequentialSeedingIdempotent ==
    [][ /\ Len(kb') >= Len(kb)
        /\ SubSeq(kb', 1, Len(kb)) = kb
        /\ (NoSeeding' /\ seeders'.started > 0)
              => \A id \in CanonicalIds : Stored(id, kb') = 1 ]_vars

\* Two runs are over on an index that held a revised row: the row is as it
\* was and the two missing chunks follow it.
C21_Witness ==
    /\ NoSeeding
    /\ seeders.started = 2
    /\ kb = <<Revised(seed_rows[2]), seed_rows[1], seed_rows[3]>>

\* C22: when no seed run is under way any more, whatever the interleaving
\* of the runs was, every canonical chunk is in the index and no chunk id
\* is stored more than once.
C22_RacingSeedsAreSafe ==
    (NoSeeding /\ seeders.started > 0)
        => \A id \in CanonicalIds : Stored(id, kb) = 1

ToolSearch == last.tool = "kb_search"

\* The boost tags of the latest search, as the request gave them.
BoostTags ==
    SelectSeq(<<GetText(last.args, "incident_type"), GetText(last.args, "service")>>,
              LAMBDA t : t # <<>>)

ChunkIds(results) == {results[i].chunk_id : i \in 1..Len(results)}

\* C23: the free text of a tool call's query reaches the engine as words
\* only: it holds no hyphen, colon, quote or star that the engine would read
\* as syntax, and the search raises no syntax error.
C23_OnlyWordsReachEngine ==
    ToolSearch =>
        /\ \A i \in 1..Len(Strip(last.args.query)) :
               Strip(last.args.query)[i] \notin Fts5Special
        /\ last.exc # "OperationalError"

\* The rows a boost tag matches: those that hold the tag's word.
TagRows(t) == RowsWith(normalize_fts_token(t)[1], kb)

\* The latest search without its boost tags.
Unboosted == kb_search(last.args.query, last.result.top_k, <<>>, kb)

\* C24: a tool call's search with a boost tag and k no smaller than the
\* index returns every chunk that matches a boost tag, and every chunk the
\* search returns without the boost.
C24_BoostOnlyAdds ==
    (ToolSearch /\ BoostTags # <<>> /\ "k" \in DOMAIN last.args /\ last.args.k >= Len(kb))
        => /\ last.exc = NONE
           /\ \A n \in 1..Len(BoostTags) : \A i \in TagRows(BoostTags[n]) :
                  kb[i].chunk_id \in ChunkIds(last.result.results)
           /\ Unboosted.exc = NONE
                  => ChunkIds(Unboosted.results) \subseteq ChunkIds(last.result.results)

\* The tags kb_search gets on the route of the latest search.
RouteTags ==
    IF last.tool = "search_kb"
    THEN JoinWith(<<" ">>, [n \in 1..Len(BoostTags) |-> normalize_fts_token(BoostTags[n])])
    ELSE JoinWith(<<" ">>, BoostTags)

\* C25: a search, by tool call or by HTTP request, whose query mentions a
\* severity token, "severity" or "rubric" returns what the OR-list of sev,
\* severity, rubric, policy and the mentioned tokens matches, and the
\* endpoint reports that list as the matched query.
C25_SeverityQueryRewritten ==
    ( /\ last.tool \in {"kb_search", "search_kb"}
      /\ MentionsSeverity(LowerText(Strip(last.args.query))) )
        => /\ last.exc = NONE
           /\ last.result.results =
                 kb_search(SeverityRewrite(Strip(last.args.query)), last.result.top_k,
                           RouteTags, kb).results
           /\ last.tool = "search_kb"
                 => last.result.matched_query = SeverityRewrite(Strip(last.args.query))

\* C26: a tool call's search works with a k between 1 and 10 and returns
\* at most k results, whatever k the request gave.
C26_AtMostTenResults ==
    (ToolSearch /\ last.exc = NONE)
        => /\ last.result.top_k \in 1..10
           /\ Len(last.result.results) <= last.result.top_k
           /\ Len(last.result.results) <= 10

\* turns are the tool-result turns of calls, one for each call, in order.
ResultsFor(calls, turns) ==
    /\ Len(turns) = Len(calls)
    /\ \A i \in 1..Len(calls) :
          IsResult(turns[i]) /\ turns[i].call_id = Get(calls[i], "call_id")

\* sent, the input of an invocation, is the input of the invocation before
\* it, then the output of that invocation's response, then the results of
\* the tool calls of that output.
Extends(sent, before, output) ==
    /\ Len(sent) >= Len(before) + Len(output)
    /\ SubSeq(sent, 1, Len(before) + Len(output)) = before \o output
    /\ ResultsFor(ToolCallsOf(output),
                  SubSeq(sent, Len(before) + Len(output) + 1, Len(sent)))

\* C27: no step removes, reorders or rewrites a turn of the conversation
\* state; every invocation of the transport gets the conversation state as
\* it is and the tool schemas: the first the system turn and the alert
\* turn, each later one the input of the invocation before it extended by
\* the output of its response and then the tool-result turns.
C27_TransportSeesAppendOnlyState ==
    [][ /\ Len(input_items') >= Len(input_items)
        /\ SubSeq(input_items', 1, Len(input_items)) = input_items
        /\ n_calls' = n_calls + 1
              => /\ payload'.input = input_items
                 /\ payload'.tools = TOOL_SCHEMAS
                 /\ IF n_calls = 0
                    THEN payload'.input = InitialItems(ScenarioAlert)
                    ELSE Extends(payload'.input, payload.input,
                                 OutputOf(response).items) ]_vars

\* A third invocation was made and its input ends with a tool-result turn.
C27_Witness ==
    /\ n_calls = 3
    /\ Len(payload.input) > 4
    /\ IsResult(payload.input[Len(payload.input)])

Request(call_id, name, arguments) ==
    [type |-> "function_call", call_id |-> call_id, name |-> name,
     arguments |-> ArgStr(arguments)]

\* Tool calls one response may hold side by side; none of them asks for an
\* incident that a call of the same response creates.
RoundCalls ==
    { Request("call_a", "add_note", TxtArgsNote),
      Request("call_b", "add_note", TxtArgsNote),
      Request("call_c", "assign_owners", TxtArgsIncident),
      Request("call_d", "get_evidence", TxtArgsIncident),
      Request("call_e", "kb_search", TxtArgsSearch) }

\* The outcomes of resolving c1 and then c2 on the repository as it is.
OneThenOther(c1, c2) ==
    [first |-> Resolve(c1, Db, {}),
     second |-> Resolve(c2, Resolve(c1, Db, {}).db, {})]

\* A result or a row without what is generated anew at every call.
Unstamped(r) == [f \in DOMAIN r \ {"note_id", "created_at"} |-> r[f]]

SameRepository(db1, db2) ==
    /\ db1.incidents = db2.incidents
    /\ Len(db1.notes) = Len(db2.notes)
    /\ {Unstamped(db1.notes[i]) : i \in 1..Len(db1.notes)}
          = {Unstamped(db2.notes[i]) : i \in 1..Len(db2.notes)}

\* C28: for every two tool calls of one round, resolving them in either
\* order gives each call the same result and leaves the same repository
\* (generated identifiers and timestamps aside).
C28_OrderOfResolutionIrrelevant ==
    \A c1, c2 \in RoundCalls :
        c1 # c2 =>
            /\ Unstamped(OneThenOther(c1, c2).first.result)
                  = Unstamped(OneThenOther(c2, c1).second.result)
            /\ Unstamped(OneThenOther(c1, c2).second.result)
                  = Unstamped(OneThenOther(c2, c1).first.result)
            /\ SameRepository(OneThenOther(c1, c2).second.db,
                              OneThenOther(c2, c1).second.db)

\* The step completes a create_incident call of the run.
CreateCompletes ==
    /\ pc = "tools"
    /\ Get(Head(tool_calls), "name") = "create_incident"
    /\ pc' # "raised"

\* The results of completed create_incident calls among the turns.
Created(items) ==
    {i \in 1..Len(items) : IsResult(items[i]) /\ "severity" \in DOMAIN items[i].output.json}

IdsOf(rows) == {rows[i].incident_id : i \in 1..Len(rows)}

\* C29: a completed create_incident call adds one incident under an
\* identifier no incident had, and returns that identifier; no other step
\* adds an incident, and no step removes or changes an incident or a note,
\* whatever the run ends in; the incidents are as many as the completed
\* create_incident calls.
C29_CreateAddsAndStays ==
    [][ /\ IF CreateCompletes
           THEN /\ Len(incidents') = Len(incidents) + 1
                /\ incidents'[Len(incidents')].incident_id \notin IdsOf(incidents)
                /\ input_items'[Len(input_items')].output.json.incident_id
                      = incidents'[Len(incidents')].incident_id
           ELSE Len(incidents') = Len(incidents)
        /\ SubSeq(incidents', 1, Len(incidents)) = incidents
        /\ Len(notes') >= Len(notes)
        /\ SubSeq(notes', 1, Len(notes)) = notes
        /\ Len(incidents') = Cardinality(Created(input_items')) ]_vars

\* The run created two incidents from the same alert and ended in a
\* failure: both rows are in the repository.
C29_Witness ==
    /\ pc = "done"
    /\ IsFailureDescriptor(result)
    /\ Len(incidents) = 2
    /\ incidents[1].incident_id # incidents[2].incident_id
    /\ [incidents[1] EXCEPT !.incident_id = "", !.created_at = ""]
          = [incidents[2] EXCEPT !.incident_id = "", !.created_at = ""]

\* C30: every incident in the repository has one of the three incident
\* types, one of the three signals and severity SEV1 or SEV2; the incident
\* created from an alert of unrecognized type is a SEV1 payments_failing
\* incident of Backend Oncall (Primary) and Payments Team (Secondary).
C30_StoredIncidentsAreRecognized ==
    /\ \A i \in 1..Len(incidents) :
          /\ incidents[i].incident_type \in allowed_incident_types
          /\ incidents[i].signal \in allowed_signals
          /\ incidents[i].severity \in {"SEV1", "SEV2"}
    /\ ( /\ CreatedFromAlert
         /\ last.exc = NONE
         /\ Unrecognized(LastAlert, "incident_type", allowed_incident_types) )
       => /\ LastRow.incident_type = "payments_failing"
          /\ LastRow.severity = "SEV1"
          /\ LastRow.assignees_json =
                JsonDumps(<<[team |-> "Backend Oncall", role |-> "Primary"],
                            [team |-> "Payments Team", role |-> "Secondary"]>>)

\* An incident was created from an alert of type disk_full.
C30_Witness ==
    /\ CreatedFromAlert
    /\ last.exc = NONE
    /\ GetVal(LastAlert, "incident_type") = JStr("disk_full")
    /\ LastRow.severity = "SEV1"

Pending(queue) == {i \in 1..Len(queue) : queue[i].status = "pending"}

QueueIds(queue) == [i \in 1..Len(queue) |-> queue[i].id]

\* C31: no item is handed out twice; every step keeps the items of the
\* queue in their places, changing at most a status, and that from pending
\* to taken; the answer to a request for the next item has no item exactly
\* when no item is pending.
C31_TakenAtMostOnce ==
    [][ /\ \A i, j \in 1..Len(handed') : handed'[i] = handed'[j] => i = j
        /\ Len(_QUEUE') >= Len(_QUEUE)
        /\ \A i \in 1..Len(_QUEUE) :
              /\ [_QUEUE'[i] EXCEPT !.status = ""] = [_QUEUE[i] EXCEPT !.status = ""]
              /\ _QUEUE'[i].status # _QUEUE[i].status
                    => _QUEUE[i].status = "pending" /\ _QUEUE'[i].status = "taken"
        /\ last'.tool = "get_next_approval"
              => (last'.result.has_item = FALSE <=> Pending(_QUEUE) = {}) ]_vars

\* All three items were handed out and a fourth request found none pending.
C31_Witness ==
    /\ Len(handed) = 3
    /\ last.tool = "get_next_approval"
    /\ last.result.has_item = FALSE

\* C32: the item handed out is the earliest enqueued item that is pending,
\* so the items handed out are, in order, the first items of the queue.
C32_FirstInFirstOut ==
    [][ /\ ( /\ last'.tool = "get_next_approval"
             /\ last'.result.has_item )
            => /\ Pending(_QUEUE) # {}
               /\ last'.result.item.id = _QUEUE[Least(Pending(_QUEUE))].id
        /\ handed' = SubSeq(QueueIds(_QUEUE'), 1, Len(handed')) ]_vars

\* Two items were handed out in their enqueue order while a third, enqueued
\* after the first was taken, is pending.
C32_Witness ==
    /\ Len(_QUEUE) = 3
    /\ handed = <<NewApprovalId(1), NewApprovalId(2)>>
    /\ _QUEUE[3].status = "pending"
    /\ _QUEUE[1].created_at < _QUEUE[3].created_at

====
